---------------------------- MODULE Spec2Model ----------------------------
(***************************************************************************)
(* A model of react-native-advanced-network: the request decorators        *)
(* (RetryDecorator, FallbackDecorator, CacheDecorator with MemoryCache)    *)
(* around a wrapped NetworkRequestable whose outcome is chosen by the      *)
(* environment on every invocation.                                        *)
(*                                                                         *)
(* An async request() is a process: one action for each stretch of code    *)
(* between two awaits.  Each decorator has its own specification           *)
(* (SpecRetry, SpecFallback, SpecCache); the variables of the other        *)
(* decorators stay at their initial values.                                *)
(***************************************************************************)
EXTENDS Integers, Sequences, FiniteSets, TLC

VARIABLES
    retryOptions,     \* RetryDecorator.options
    retry,            \* the request() calls made through the RetryDecorator
    fallbackOptions,  \* FallbackDecorator.options
    fallback,         \* the request() calls made through the FallbackDecorator
    cacheConfig,      \* CacheDecorator.ttl and CacheDecorator.cacheMethods
    cache,            \* MemoryCache.cache: key -> {value, expiry}
    now,              \* Date.now()
    cached,           \* the request() calls made through the CacheDecorator
    lastStored,       \* the request that has just stored its response
    keyed,            \* the calls of generateCacheKey
    authConfig,       \* AuthenticatedDecorator.needsAuth and .headerName
    auth,             \* the request() calls made through the AuthenticatedDecorator
    stack,            \* the request() calls made through a stack of decorators
    memory,           \* the option objects and arrays of caller and decorators
    called,           \* the last call made on a Cache by its user
    mockCache,        \* MockCache.cache and the histories of the MockCache
    base              \* the request() calls made on BaseNetworkRequestable

vars == <<retryOptions, retry, fallbackOptions, fallback,
          cacheConfig, cache, now, cached, lastStored, keyed,
          authConfig, auth, stack, memory, called, mockCache, base>>

retryVars == <<retryOptions, retry>>
fallbackVars == <<fallbackOptions, fallback>>
cacheVars == <<cacheConfig, cache, now, cached, lastStored>>
keyVars == <<keyed>>
authVars == <<authConfig, auth>>
stackVars == <<stack>>
memoryVars == <<memory>>
leafVars == <<called, mockCache, base>>

\* What the requests through one decorator leave alone
exceptRetry ==
    <<fallbackVars, cacheVars, keyVars, authVars, stackVars, memoryVars,
      leafVars>>
exceptFallback ==
    <<retryVars, cacheVars, keyVars, authVars, stackVars, memoryVars,
      leafVars>>
exceptCache ==
    <<retryVars, fallbackVars, keyVars, authVars, stackVars, memoryVars,
      leafVars>>
exceptKey ==
    <<retryVars, fallbackVars, cacheVars, authVars, stackVars, memoryVars,
      leafVars>>
exceptAuth ==
    <<retryVars, fallbackVars, cacheVars, keyVars, stackVars, memoryVars,
      leafVars>>
exceptStack ==
    <<retry, fallback, cached, lastStored, keyVars, auth, memoryVars,
      leafVars>>

-----------------------------------------------------------------------------
(* Bounds of the model.                                                    *)

\* maxAttempts ranges over 0..MaxAttemptsBound
MaxAttemptsBound == 4

\* Date.now() ranges over 0..MaxNow
MaxNow == 3

-----------------------------------------------------------------------------
(* types: HTTPMethod, NetworkErrorType, NetworkError.                      *)

HTTPMethod == {"GET", "POST", "PUT", "DELETE", "PATCH", "HEAD", "OPTIONS"}

NetworkErrorType ==
    {"INVALID_URL", "NO_DATA", "DECODING_ERROR", "HTTP_ERROR",
     "UNAUTHORIZED", "CUSTOM", "TIMEOUT", "NETWORK_FAILURE"}

\* new NetworkError(type, message, statusCode?).  typed is "instanceof
\* NetworkError"; hasStatus is FALSE when statusCode is undefined.
NetworkError(type, hasStatus, statusCode) ==
    [typed |-> TRUE, type |-> type, hasStatus |-> hasStatus,
     statusCode |-> statusCode]

NetworkError_noData == NetworkError("NO_DATA", FALSE, 0)
NetworkError_httpError(statusCode) == NetworkError("HTTP_ERROR", TRUE, statusCode)
NetworkError_unauthorized == NetworkError("UNAUTHORIZED", TRUE, 401)
NetworkError_custom == NetworkError("CUSTOM", FALSE, 0)
NetworkError_timeout == NetworkError("TIMEOUT", FALSE, 0)
NetworkError_networkFailure == NetworkError("NETWORK_FAILURE", FALSE, 0)

\* An error that is not a NetworkError (MockNetworkRequestable: "No mock found")
ForeignError == [typed |-> FALSE, type |-> "Error", hasStatus |-> FALSE,
                 statusCode |-> 0]

\* null, where the code holds "NetworkError | null"
NoError == [typed |-> FALSE, type |-> "null", hasStatus |-> FALSE,
            statusCode |-> 0]

\* The status codes the wrapped contract reports with an HTTP_ERROR
StatusCodes == {0, 404, 499, 500, 503}

\* The errors the wrapped contract can reject with
Errors ==
    {NetworkError_networkFailure, NetworkError_timeout, NetworkError_noData,
     NetworkError_unauthorized, NetworkError_custom,
     NetworkError("HTTP_ERROR", FALSE, 0), ForeignError}
    \cup {NetworkError_httpError(s) : s \in StatusCodes}

\* The values the wrapped contract can resolve with ("null" is JavaScript's
\* null)
Values == {"r1", "r2", "null"}

\* How a call ended: a returned value or a thrown error
Returned(v) == [ok |-> TRUE, value |-> v, error |-> NoError]
Thrown(e) == [ok |-> FALSE, value |-> "-", error |-> e]
Pending == [ok |-> FALSE, value |-> "-", error |-> NoError]

\* JavaScript truthiness of error.statusCode (undefined and 0 are falsy)
TruthyStatus(e) == e.hasStatus /\ e.statusCode # 0

Min(a, b) == IF a <= b THEN a ELSE b

\* An optional argument: undefined, or a value
Undefined(empty) == [defined |-> FALSE, val |-> empty]
Defined(x) == [defined |-> TRUE, val |-> x]

\* body?: Record<string, any>: an object is the sequence of its fields, each
\* <<name, value>>, in insertion order
Bodies == {Undefined(<<>>), Defined(<<>>), Defined(<< <<"a", "1">> >>)}

\* headers?: Record<string, string>: the set of its <<name, value>> entries
HeaderArgs ==
    {Undefined({}), Defined({}), Defined({<<"X-Custom-Header", "v">>})}

\* responseType?: new () => T
ResponseTypes == {Undefined("-"), Defined("TestResponse")}

Endpoints == {"/a", "/b"}

\* The arguments of a call of request()
RequestArgs ==
    [endpoint : Endpoints, method : {"GET", "POST"}, body : Bodies,
     responseType : ResponseTypes, headers : HeaderArgs]

\* A parameter declared "headers: Record<string, string> = {}"
DefaultHeaders(args) ==
    [args EXCEPT !.headers = IF @.defined THEN @ ELSE Defined({})]

-----------------------------------------------------------------------------
(* RetryDecorator                                                          *)

DEFAULT_RETRY_OPTIONS ==
    [maxAttempts |-> 3, initialDelay |-> 300, maxDelay |-> 3000,
     backoffFactor |-> 2,
     retryableErrors |-> {"NETWORK_FAILURE", "TIMEOUT", "HTTP_ERROR"}]

RetryFields ==
    {"maxAttempts", "initialDelay", "maxDelay", "backoffFactor",
     "retryableErrors"}

\* The option values a caller passes (Partial<RetryOptions>: the fields in
\* given are present)
RetryOptionValues ==
    [maxAttempts : 0 .. MaxAttemptsBound,
     initialDelay : {0, 100, 5000},
     maxDelay : {1000},
     backoffFactor : {1, 4},
     retryableErrors : {{}, {"UNAUTHORIZED"}, {"HTTP_ERROR", "CUSTOM"}}]

\* constructor: this.options = { ...DEFAULT_RETRY_OPTIONS, ...options }
RetryDecorator(given, options) ==
    [k \in RetryFields |->
        IF k \in given THEN options[k] ELSE DEFAULT_RETRY_OPTIONS[k]]

RetryPolicies ==
    {RetryDecorator(given, o) : given \in SUBSET RetryFields,
                                o \in RetryOptionValues}

\* A call that has not been made yet.  pc, attempt, waitTime and lastError are
\* the locals of request(); invocations counts the calls of
\* this.wrapped.request, raised lists the errors they rejected with, resolved
\* is the value one resolved with, waits lists the arguments of delay(),
\* duringWaits the waits of other calls that were going on when request() was
\* called, outcome is how request() ended.
RetryIdle ==
    [pc |-> "idle", attempt |-> 0, waitTime |-> 0, lastError |-> NoError,
     invocations |-> 0, waits |-> <<>>, raised |-> <<>>, resolved |-> "-",
     duringWaits |-> {}, outcome |-> Pending]

\* The calls of RetryDecorator.request() suspended in await delay(waitTime),
\* each with the number of the wait it is in
WaitsGoingOn ==
    {<<d, Len(retry[d].waits)>> :
        d \in {e \in DOMAIN retry : retry[e].pc = "awaitDelay"}}

\* A bug: the test of retryableErrors is missing
RetryNotEligibleAnyType(options, error) ==
    \/ ~error.typed
    \/ (error.type = "HTTP_ERROR" /\ TruthyStatus(error)
        /\ error.statusCode < 500)

\* The catch block's tests of lines 85-99: the error is thrown again at once
RetryNotEligible(options, error) ==
    \/ ~error.typed
    \/ error.type \notin options.retryableErrors
    \/ (error.type = "HTTP_ERROR" /\ TruthyStatus(error)
        /\ error.statusCode < 500)

\* The head of the while loop: the next invocation of the wrapped contract,
\* or the throw after the loop
RetryLoop(options, r) ==
    IF r.attempt < options.maxAttempts
    THEN [r EXCEPT !.pc = "awaitWrapped", !.invocations = @ + 1]
    ELSE [r EXCEPT !.pc = "done",
                   !.outcome = Thrown(IF r.lastError # NoError
                                      THEN r.lastError
                                      ELSE NetworkError_custom)]


\* A bug: attempt and waitTime are fields of the decorator, a call goes on
\* from where the call before it has come to
RetryRequestSharedCounters(c) ==
    /\ retry[c].pc = "idle"
    /\ LET others == {d \in DOMAIN retry : retry[d].pc # "idle"}
           latest == IF others = {} THEN retry[c]
                     ELSE CHOOSE d \in {retry[e] : e \in others} :
                             \A e \in others : d.attempt >= retry[e].attempt
       IN retry' = [retry EXCEPT ![c] =
            RetryLoop(retryOptions,
                      [retry[c] EXCEPT
                          !.lastError = NoError,
                          !.attempt = latest.attempt,
                          !.waitTime = IF others = {}
                                       THEN retryOptions.initialDelay
                                       ELSE latest.waitTime,
                          !.duringWaits = WaitsGoingOn])]
    /\ UNCHANGED <<retryOptions, exceptRetry>>

\* request(): lines 75-82, up to the first await
RetryRequest(c) ==
    /\ retry[c].pc = "idle"
    /\ retry' = [retry EXCEPT ![c] =
            RetryLoop(retryOptions,
                      [retry[c] EXCEPT !.lastError = NoError, !.attempt = 0,
                                       !.waitTime = retryOptions.initialDelay,
                                       !.duringWaits = WaitsGoingOn])]
    /\ UNCHANGED <<retryOptions, exceptRetry>>

\* A bug: the value of the wrapped request is not returned, the loop goes on
RetryWrappedResolvesNoReturn(c, v) ==
    /\ retry[c].pc = "awaitWrapped"
    /\ retry' = [retry EXCEPT ![c] =
            RetryLoop(retryOptions,
                      [retry[c] EXCEPT !.resolved = v, !.attempt = @ + 1])]
    /\ UNCHANGED <<retryOptions, exceptRetry>>

\* A bug: delay() blocks the thread, so that no promise settles while a call
\* is waiting
RetryWrappedResolvesBlockedByWait(c, v) ==
    /\ retry[c].pc = "awaitWrapped"
    /\ \A d \in DOMAIN retry : retry[d].pc # "awaitDelay"
    /\ retry' = [retry EXCEPT ![c].pc = "done", ![c].resolved = v,
                              ![c].outcome = Returned(v)]
    /\ UNCHANGED <<retryOptions, exceptRetry>>

\* The wrapped request resolves: return await this.wrapped.request(...)
RetryWrappedResolves(c, v) ==
    /\ retry[c].pc = "awaitWrapped"
    /\ retry' = [retry EXCEPT ![c].pc = "done", ![c].resolved = v,
                              ![c].outcome = Returned(v)]
    /\ UNCHANGED <<retryOptions, exceptRetry>>

\* A bug: the last attempt is given up (attempt + 2 for attempt + 1)
RetryCatchOneAttemptShort(options, r, error) ==
    IF \/ RetryNotEligible(options, error)
       \/ r.attempt + 2 >= options.maxAttempts
    THEN [r EXCEPT !.pc = "done", !.raised = Append(@, error),
                   !.lastError = error, !.outcome = Thrown(error)]
    ELSE [r EXCEPT !.pc = "awaitDelay", !.raised = Append(@, error),
                   !.lastError = error, !.waits = Append(@, r.waitTime)]

\* What the catch block does with the error, up to await delay(waitTime)
RetryCatch(options, r, error) ==
    IF ~error.typed
    THEN [r EXCEPT !.pc = "done", !.raised = Append(@, error),
                   !.outcome = Thrown(error)]
    ELSE IF \/ RetryNotEligible(options, error)
            \/ r.attempt + 1 >= options.maxAttempts
         THEN [r EXCEPT !.pc = "done", !.raised = Append(@, error),
                        !.lastError = error, !.outcome = Thrown(error)]
         ELSE [r EXCEPT !.pc = "awaitDelay", !.raised = Append(@, error),
                        !.lastError = error,
                        !.waits = Append(@, r.waitTime)]

\* The wrapped request rejects: lines 83-107
RetryWrappedRejects(c, error) ==
    /\ retry[c].pc = "awaitWrapped"
    /\ retry' = [retry EXCEPT ![c] = RetryCatch(retryOptions, retry[c], error)]
    /\ UNCHANGED <<retryOptions, exceptRetry>>

\* Line 110: the delay for the next attempt
NextWaitTime(options, waitTime) ==
    Min(waitTime * options.backoffFactor, options.maxDelay)

\* The timer of delay(waitTime) fires: lines 110-111 and the loop's test
RetryDelayElapses(c) ==
    /\ retry[c].pc = "awaitDelay"
    /\ retry' = [retry EXCEPT ![c] =
            RetryLoop(retryOptions,
                      [retry[c] EXCEPT
                          !.waitTime = NextWaitTime(retryOptions, @),
                          !.attempt = @ + 1])]
    /\ UNCHANGED <<retryOptions, exceptRetry>>

RetryNext ==
    \/ \E c \in DOMAIN retry : RetryRequest(c)
    \/ \E c \in DOMAIN retry, v \in Values : RetryWrappedResolves(c, v)
    \/ \E c \in DOMAIN retry, e \in Errors : RetryWrappedRejects(c, e)
    \/ \E c \in DOMAIN retry : RetryDelayElapses(c)

-----------------------------------------------------------------------------
(* FallbackDecorator                                                       *)

DEFAULT_FALLBACK_OPTIONS ==
    [fallbackErrors |-> {"NETWORK_FAILURE", "TIMEOUT", "HTTP_ERROR"}]

\* The option values a caller passes (Partial<FallbackOptions>)
FallbackOptionValues ==
    [fallbackErrors : {{}, {"UNAUTHORIZED"}, {"HTTP_ERROR", "CUSTOM"}}]

\* constructor: this.options = { ...DEFAULT_FALLBACK_OPTIONS, ...options }
FallbackDecorator(given, options) ==
    [k \in {"fallbackErrors"} |->
        IF k \in given THEN options[k] ELSE DEFAULT_FALLBACK_OPTIONS[k]]

FallbackPolicies ==
    {FallbackDecorator(given, o) : given \in SUBSET {"fallbackErrors"},
                                   o \in FallbackOptionValues}

\* A call that has not been made yet.  args holds the parameters of request();
\* primaryCalls and fallbackCalls list the arguments of the calls of
\* this.primary.request and this.fallback.request;
\* primaryOutcome and fallbackOutcome are how those calls ended; outcome is how
\* request() ended; duringWaits holds the waits of RetryDecorator calls that
\* were going on when request() was called.
FallbackIdle ==
    [pc |-> "idle",
     args |-> [endpoint |-> "", method |-> "", body |-> Undefined(<<>>),
               responseType |-> Undefined("-"), headers |-> Undefined({})],
     primaryCalls |-> <<>>, fallbackCalls |-> <<>>,
     primaryOutcome |-> Pending, fallbackOutcome |-> Pending,
     duringWaits |-> {}, outcome |-> Pending]

\* The catch block's tests of lines 67-79: the primary's error is thrown again
FallbackNotEligible(options, error) ==
    \/ ~error.typed
    \/ error.type \notin options.fallbackErrors
    \/ (error.type = "HTTP_ERROR" /\ TruthyStatus(error)
        /\ error.statusCode < 500)

\* request(): line 64, up to the await
FallbackRequest(c, args) ==
    /\ fallback[c].pc = "idle"
    /\ fallback' = [fallback EXCEPT
            ![c].pc = "awaitPrimary",
            ![c].args = DefaultHeaders(args),
            ![c].duringWaits = WaitsGoingOn,
            ![c].primaryCalls = Append(@, DefaultHeaders(args))]
    /\ UNCHANGED <<fallbackOptions, exceptFallback>>

\* The primary request resolves: return await this.primary.request(...)
FallbackPrimaryResolves(c, v) ==
    /\ fallback[c].pc = "awaitPrimary"
    /\ fallback' = [fallback EXCEPT
            ![c].pc = "done",
            ![c].primaryOutcome = Returned(v),
            ![c].outcome = Returned(v)]
    /\ UNCHANGED <<fallbackOptions, exceptFallback>>

\* A bug: the fallback request is made without the caller's headers
FallbackPrimaryRejectsDropsHeaders(c, error) ==
    /\ fallback[c].pc = "awaitPrimary"
    /\ fallback' = [fallback EXCEPT ![c] =
            IF FallbackNotEligible(fallbackOptions, error)
            THEN [@ EXCEPT !.pc = "done",
                           !.primaryOutcome = Thrown(error),
                           !.outcome = Thrown(error)]
            ELSE [@ EXCEPT !.pc = "awaitFallback",
                           !.primaryOutcome = Thrown(error),
                           !.fallbackCalls =
                               Append(@, [fallback[c].args EXCEPT
                                             !.headers = Defined({})])]]
    /\ UNCHANGED <<fallbackOptions, exceptFallback>>

\* The primary request rejects: lines 65-82, up to the await
FallbackPrimaryRejects(c, error) ==
    /\ fallback[c].pc = "awaitPrimary"
    /\ fallback' = [fallback EXCEPT ![c] =
            IF FallbackNotEligible(fallbackOptions, error)
            THEN [@ EXCEPT !.pc = "done",
                           !.primaryOutcome = Thrown(error),
                           !.outcome = Thrown(error)]
            ELSE [@ EXCEPT !.pc = "awaitFallback",
                           !.primaryOutcome = Thrown(error),
                           !.fallbackCalls = Append(@, fallback[c].args)]]
    /\ UNCHANGED <<fallbackOptions, exceptFallback>>

\* The fallback request resolves: return await this.fallback.request(...)
FallbackSecondaryResolves(c, v) ==
    /\ fallback[c].pc = "awaitFallback"
    /\ fallback' = [fallback EXCEPT
            ![c].pc = "done",
            ![c].fallbackOutcome = Returned(v),
            ![c].outcome = Returned(v)]
    /\ UNCHANGED <<fallbackOptions, exceptFallback>>

\* A bug: a failed fallback request is made once more
FallbackSecondaryRejectsAgain(c, error) ==
    /\ fallback[c].pc = "awaitFallback"
    /\ fallback' = [fallback EXCEPT ![c] =
            IF Len(@.fallbackCalls) < 2
            THEN [@ EXCEPT !.fallbackCalls = Append(@, fallback[c].args)]
            ELSE [@ EXCEPT !.pc = "done",
                           !.fallbackOutcome = Thrown(error),
                           !.outcome = Thrown(error)]]
    /\ UNCHANGED <<fallbackOptions, exceptFallback>>

\* The fallback request rejects: the error leaves request()
FallbackSecondaryRejects(c, error) ==
    /\ fallback[c].pc = "awaitFallback"
    /\ fallback' = [fallback EXCEPT
            ![c].pc = "done",
            ![c].fallbackOutcome = Thrown(error),
            ![c].outcome = Thrown(error)]
    /\ UNCHANGED <<fallbackOptions, exceptFallback>>

FallbackNext ==
    \/ \E c \in DOMAIN fallback, args \in RequestArgs : FallbackRequest(c, args)
    \/ \E c \in DOMAIN fallback, v \in Values : FallbackPrimaryResolves(c, v)
    \/ \E c \in DOMAIN fallback, e \in Errors : FallbackPrimaryRejects(c, e)
    \/ \E c \in DOMAIN fallback, v \in Values : FallbackSecondaryResolves(c, v)
    \/ \E c \in DOMAIN fallback, e \in Errors : FallbackSecondaryRejects(c, e)

-----------------------------------------------------------------------------
(* generateCacheKey                                                        *)

\* The values of the fields of a body, each written as JavaScript writes it:
\* two numbers, null, NaN and undefined
JSValues == {"1", "2", "null", "NaN", "undefined"}

\* JSON.stringify of a value that is kept: NaN is written null
JSON_value(v) == IF v = "NaN" THEN "null" ELSE v

\* JSON.stringify leaves out the fields whose value is undefined
JSON_kept(fields) == SelectSeq(fields, LAMBDA f : f[2] # "undefined")

\* JSON.stringify of the fields of an object, the first preceded by no comma
RECURSIVE JSON_fields(_)
JSON_fields(fields) ==
    IF fields = <<>> THEN ""
    ELSE LET f == Head(fields) IN
         "\"" \o f[1] \o "\":" \o JSON_value(f[2])
         \o (IF Tail(fields) = <<>> THEN "" ELSE ",")
         \o JSON_fields(Tail(fields))

\* JSON.stringify(body) of an object, its fields in insertion order
JSON_stringify(fields) == "{" \o JSON_fields(JSON_kept(fields)) \o "}"

\* A bug: the body is left out of the key
generateCacheKeyWithoutBody(endpoint, method, body) ==
    method \o ":" \o endpoint \o ":"

\* `${method}:${endpoint}:${body ? JSON.stringify(body) : ''}`
generateCacheKey(endpoint, method, body) ==
    method \o ":" \o endpoint \o ":"
    \o (IF body.defined THEN JSON_stringify(body.val) ELSE "")

\* The bodies generateCacheKey is called with: none, or an object of at most
\* two fields a and b, in either insertion order
KeyFields == {"a", "b"} \X JSValues

KeyBodies ==
    {Undefined(<<>>), Defined(<<>>)}
    \cup {Defined(<<f>>) : f \in KeyFields}
    \cup {Defined(<<p[1], p[2]>>) :
              p \in {q \in KeyFields \X KeyFields : q[1][1] # q[2][1]}}

\* The calls of generateCacheKey, before they are made
KeyCalls ==
    [endpoint : {"/a"}, method : {"GET", "POST"}, body : KeyBodies,
     key : {Undefined("")}]

\* generateCacheKey(endpoint, method, body) returns
KeyGenerate(c) ==
    /\ ~keyed[c].key.defined
    /\ keyed' = [keyed EXCEPT ![c].key =
            Defined(generateCacheKey(keyed[c].endpoint, keyed[c].method,
                                     keyed[c].body))]
    /\ UNCHANGED exceptKey

KeyNext == \E c \in DOMAIN keyed : KeyGenerate(c)

-----------------------------------------------------------------------------
(* MemoryCache: a map from keys to {value, expiry}                         *)

EmptyMap == [k \in {} |-> k]

\* expiry: number | null
NullExpiry == Undefined(0)

\* JavaScript truthiness of the ttl argument (undefined and 0 are falsy)
TruthyTtl(ttl) == ttl.defined /\ ttl.val # 0

\* The entry get() finds expired: item.expiry !== null && Date.now() > item.expiry
Expired(item, t) == item.expiry.defined /\ t > item.expiry.val

\* get(key): the value returned ("null" when there is no live entry)
MemoryCache_get(m, t, key) ==
    IF key \notin DOMAIN m THEN "null"
    ELSE IF Expired(m[key], t) THEN "null"
    ELSE m[key].value


\* A bug: remove(key) empties the map
MemoryCache_removeEverything(m, key) == EmptyMap

\* remove(key): this.cache.delete(key)
MemoryCache_remove(m, key) == [k \in DOMAIN m \ {key} |-> m[k]]

\* A bug: get() leaves an expired entry in the map
MemoryCache_afterGetKeepsExpired(m, t, key) == m

\* get(key): the map it leaves (an expired entry is deleted)
MemoryCache_afterGet(m, t, key) ==
    IF key \in DOMAIN m /\ Expired(m[key], t)
    THEN MemoryCache_remove(m, key)
    ELSE m

\* set(key, value, ttl)
MemoryCache_set(m, t, key, value, ttl) ==
    [k \in DOMAIN m \cup {key} |->
        IF k = key
        THEN [value |-> value,
              expiry |-> IF TruthyTtl(ttl) THEN Defined(t + ttl.val)
                         ELSE NullExpiry]
        ELSE m[k]]

\* clear()
MemoryCache_clear == EmptyMap

-----------------------------------------------------------------------------
(* CacheDecorator, constructed over a MemoryCache                          *)

\* ttl: number | null, and cacheMethods, as the constructor is given them
CacheConfigs ==
    [ttl : {Undefined(0), Defined(0), Defined(2)},
     cacheMethods : {{"GET"}, {"GET", "POST"}}]

\* The requests made through the CacheDecorator
CacheRequestArgs ==
    [endpoint : {"/a"}, method : {"GET", "POST"},
     body : {Undefined(<<>>), Defined(<< <<"a", "1">> >>)},
     responseType : {Undefined("-")},
     headers : {Undefined({}), Defined({<<"X-Custom-Header", "v">>})}]

\* The arguments invalidateCache(endpoint, method, body) is called with
CacheInvalidateArgs ==
    {[endpoint |-> a.endpoint, method |-> a.method, body |-> a.body] :
        a \in CacheRequestArgs}

\* The errors the wrapped contract rejects with (the CacheDecorator does not
\* look at them)
CacheErrors == {NetworkError_networkFailure, ForeignError}

CacheCalls == {1, 2}

\* No request has just stored its response
NoStore == [valid |-> FALSE, key |-> "", value |-> "-"]

\* A call that has not been made yet.  args holds the parameters of request()
\* and cacheKey its local; wrappedCalls lists the arguments of the calls of
\* this.wrapped.request, wrappedOutcome is how that call ended, ops lists the
\* calls this request made on the Cache, storedAt is Date.now() when it called
\* set with a ttl (this.ttl is not null), raced tells that it missed while
\* the wrapped call of another request for its key was pending, outcome is
\* how request() ended.
CacheIdle ==
    [pc |-> "idle",
     args |-> [endpoint |-> "", method |-> "", body |-> Undefined(<<>>),
               responseType |-> Undefined("-"), headers |-> Undefined({})],
     cacheKey |-> "", wrappedCalls |-> <<>>, wrappedOutcome |-> Pending,
     ops |-> <<>>, storedAt |-> Undefined(0), raced |-> FALSE,
     outcome |-> Pending]

\* A bug: every method is cached
CacheableWhateverMethod(method) == method \in HTTPMethod

\* this.cacheMethods.includes(method)
Cacheable(method) == method \in cacheConfig.cacheMethods

\* A bug: the cache is read twice on a miss
CacheRequestLooksTwice(c, args) ==
    /\ cached[c].pc = "idle"
    /\ LET a == DefaultHeaders(args)
           key == generateCacheKey(a.endpoint, a.method, a.body)
           cachedResponse == MemoryCache_get(cache, now, key)
       IN IF Cacheable(a.method)
          THEN /\ cache' = MemoryCache_afterGet(cache, now, key)
               /\ cached' = [cached EXCEPT ![c] =
                     IF cachedResponse # "null"
                     THEN [@ EXCEPT !.pc = "done", !.args = a,
                                    !.cacheKey = key,
                                    !.ops = Append(@, <<"get", key>>),
                                    !.outcome = Returned(cachedResponse)]
                     ELSE [@ EXCEPT !.pc = "awaitWrapped", !.args = a,
                                    !.cacheKey = key,
                                    !.raced =
                                        \E d \in DOMAIN cached :
                                            /\ cached[d].pc = "awaitWrapped"
                                            /\ cached[d].cacheKey = key,
                                    !.ops = <<<<"get", key>>, <<"get", key>>>>,
                                    !.wrappedCalls = Append(@, a)]]
          ELSE /\ cache' = cache
               /\ cached' = [cached EXCEPT ![c] =
                     [@ EXCEPT !.pc = "awaitPassThrough", !.args = a,
                               !.wrappedCalls = Append(@, a)]]
    /\ lastStored' = NoStore
    /\ UNCHANGED <<cacheConfig, now, exceptCache>>

\* request(): lines 231-241 (a cacheable method) or line 250, up to the await
CacheRequest(c, args) ==
    /\ cached[c].pc = "idle"
    /\ LET a == DefaultHeaders(args)
           key == generateCacheKey(a.endpoint, a.method, a.body)
           cachedResponse == MemoryCache_get(cache, now, key)
       IN IF Cacheable(a.method)
          THEN /\ cache' = MemoryCache_afterGet(cache, now, key)
               /\ cached' = [cached EXCEPT ![c] =
                     IF cachedResponse # "null"
                     THEN [@ EXCEPT !.pc = "done", !.args = a,
                                    !.cacheKey = key,
                                    !.ops = Append(@, <<"get", key>>),
                                    !.outcome = Returned(cachedResponse)]
                     ELSE [@ EXCEPT !.pc = "awaitWrapped", !.args = a,
                                    !.cacheKey = key,
                                    !.raced =
                                        \E d \in DOMAIN cached :
                                            /\ cached[d].pc = "awaitWrapped"
                                            /\ cached[d].cacheKey = key,
                                    !.ops = Append(@, <<"get", key>>),
                                    !.wrappedCalls = Append(@, a)]]
          ELSE /\ cache' = cache
               /\ cached' = [cached EXCEPT ![c] =
                     [@ EXCEPT !.pc = "awaitPassThrough", !.args = a,
                               !.wrappedCalls = Append(@, a)]]
    /\ lastStored' = NoStore
    /\ UNCHANGED <<cacheConfig, now, exceptCache>>

\* A bug: the response is stored only when the key has no entry yet
CacheWrappedResolvesFirstWriteWins(c, v) ==
    /\ cached[c].pc = "awaitWrapped"
    /\ cache' = IF cached[c].cacheKey \in DOMAIN cache THEN cache
                ELSE MemoryCache_set(cache, now, cached[c].cacheKey, v,
                                     cacheConfig.ttl)
    /\ cached' = [cached EXCEPT
            ![c].pc = "done",
            ![c].wrappedOutcome = Returned(v),
            ![c].ops = Append(@, <<"set", cached[c].cacheKey>>),
            ![c].storedAt = IF cacheConfig.ttl.defined THEN Defined(now)
                            ELSE @,
            ![c].outcome = Returned(v)]
    /\ lastStored' = [valid |-> TRUE, key |-> cached[c].cacheKey, value |-> v]
    /\ UNCHANGED <<cacheConfig, now, exceptCache>>

\* The wrapped request of a miss resolves: lines 241-246
CacheWrappedResolves(c, v) ==
    /\ cached[c].pc = "awaitWrapped"
    /\ cache' = MemoryCache_set(cache, now, cached[c].cacheKey, v,
                                cacheConfig.ttl)
    /\ cached' = [cached EXCEPT
            ![c].pc = "done",
            ![c].wrappedOutcome = Returned(v),
            ![c].ops = Append(@, <<"set", cached[c].cacheKey>>),
            ![c].storedAt = IF cacheConfig.ttl.defined THEN Defined(now)
                            ELSE @,
            ![c].outcome = Returned(v)]
    /\ lastStored' = [valid |-> TRUE, key |-> cached[c].cacheKey, value |-> v]
    /\ UNCHANGED <<cacheConfig, now, exceptCache>>

\* A bug: the failure of the wrapped request is stored as if it were a response
CacheWrappedRejectsStoresFailure(c, error) ==
    /\ cached[c].pc = "awaitWrapped"
    /\ cache' = MemoryCache_set(cache, now, cached[c].cacheKey, error.type,
                                cacheConfig.ttl)
    /\ cached' = [cached EXCEPT
            ![c].pc = "done",
            ![c].wrappedOutcome = Thrown(error),
            ![c].ops = Append(@, <<"set", cached[c].cacheKey>>),
            ![c].outcome = Thrown(error)]
    /\ lastStored' = NoStore
    /\ UNCHANGED <<cacheConfig, now, exceptCache>>

\* The wrapped request of a miss rejects: the error leaves request() at line 241
CacheWrappedRejects(c, error) ==
    /\ cached[c].pc = "awaitWrapped"
    /\ cached' = [cached EXCEPT
            ![c].pc = "done",
            ![c].wrappedOutcome = Thrown(error),
            ![c].outcome = Thrown(error)]
    /\ lastStored' = NoStore
    /\ UNCHANGED <<cacheConfig, cache, now, exceptCache>>

\* The wrapped request of line 250 settles: request() settles the same way
CachePassThroughSettles(c, result) ==
    /\ cached[c].pc = "awaitPassThrough"
    /\ cached' = [cached EXCEPT
            ![c].pc = "done",
            ![c].wrappedOutcome = result,
            ![c].outcome = result]
    /\ lastStored' = NoStore
    /\ UNCHANGED <<cacheConfig, cache, now, exceptCache>>

\* clearCache()
CacheClearCache ==
    /\ cache' = MemoryCache_clear
    /\ lastStored' = NoStore
    /\ UNCHANGED <<cacheConfig, now, cached, exceptCache>>

\* A bug: the key is made without the body
CacheInvalidateCacheIgnoresBody(endpoint, method, body) ==
    /\ cache' = MemoryCache_remove(cache,
                     generateCacheKey(endpoint, method, Undefined(<<>>)))
    /\ lastStored' = NoStore
    /\ UNCHANGED <<cacheConfig, now, cached, exceptCache>>

\* invalidateCache(endpoint, method, body)
CacheInvalidateCache(endpoint, method, body) ==
    /\ cache' = MemoryCache_remove(cache,
                                   generateCacheKey(endpoint, method, body))
    /\ lastStored' = NoStore
    /\ UNCHANGED <<cacheConfig, now, cached, exceptCache>>

\* Time passes: Date.now() grows
Tick ==
    /\ now < MaxNow
    /\ now' = now + 1
    /\ lastStored' = NoStore
    /\ UNCHANGED <<cacheConfig, cache, cached, exceptCache>>

CacheNext ==
    \/ \E c \in DOMAIN cached, args \in CacheRequestArgs : CacheRequest(c, args)
    \/ \E c \in DOMAIN cached, v \in Values : CacheWrappedResolves(c, v)
    \/ \E c \in DOMAIN cached, e \in CacheErrors : CacheWrappedRejects(c, e)
    \/ \E c \in DOMAIN cached, v \in Values :
          CachePassThroughSettles(c, Returned(v))
    \/ \E c \in DOMAIN cached, e \in CacheErrors :
          CachePassThroughSettles(c, Thrown(e))
    \/ CacheClearCache
    \/ \E a \in CacheInvalidateArgs :
          CacheInvalidateCache(a.endpoint, a.method, a.body)
    \/ Tick

-----------------------------------------------------------------------------
(* A Cache called by its user, without a decorator: called is the last    *)
(* call, with what it returned and Date.now() when it was made.            *)

\* A call of get, set, remove or clear ("-" for what the call does not have)
CacheCall(op, key, value, ttl, result) ==
    [op |-> op, key |-> key, value |-> value, ttl |-> ttl, result |-> result,
     at |-> now]

\* What a call on one Cache leaves alone
exceptCalled ==
    <<cacheConfig, cached, lastStored, retryVars, fallbackVars, keyVars,
      authVars, stackVars, memoryVars, base>>

\* MemoryCache.get(key)
MemoryCacheGet(key) ==
    /\ called' = CacheCall("get", key, "-", Undefined(0),
                           MemoryCache_get(cache, now, key))
    /\ cache' = MemoryCache_afterGet(cache, now, key)
    /\ UNCHANGED <<now, mockCache, exceptCalled>>

\* MemoryCache.set(key, value, ttl)
MemoryCacheSet(key, value, ttl) ==
    /\ called' = CacheCall("set", key, value, ttl, "-")
    /\ cache' = MemoryCache_set(cache, now, key, value, ttl)
    /\ UNCHANGED <<now, mockCache, exceptCalled>>

\* MemoryCache.remove(key)
MemoryCacheRemove(key) ==
    /\ called' = CacheCall("remove", key, "-", Undefined(0), "-")
    /\ cache' = MemoryCache_remove(cache, key)
    /\ UNCHANGED <<now, mockCache, exceptCalled>>

\* MemoryCache.clear()
MemoryCacheClear ==
    /\ called' = CacheCall("clear", "", "-", Undefined(0), "-")
    /\ cache' = MemoryCache_clear
    /\ UNCHANGED <<now, mockCache, exceptCalled>>

MemoryCacheNext ==
    \/ \E key \in {"k1", "k2"} : MemoryCacheGet(key)
    \/ \E key \in {"k1", "k2"}, value \in Values,
          ttl \in {Undefined(0), Defined(0), Defined(1), Defined(2)} :
          MemoryCacheSet(key, value, ttl)
    \/ \E key \in {"k1", "k2"} : MemoryCacheRemove(key)
    \/ MemoryCacheClear
    \/ Tick

-----------------------------------------------------------------------------
(* MockCache: a map from keys to values and the histories of the calls.    *)
(* Values are written as JavaScript writes them.                           *)

\* The histories hold at most MaxHistory calls each
MaxHistory == 2

\* The values that || replaces by its right operand
Falsy(v) == v \in {"undefined", "null", "0", "''", "false", "NaN"}

\* get(key): this.getHistory.push(key);
\* return (this.cache.get(key) as T) || null
MockCache_get(key) ==
    /\ Len(mockCache.getHistory) < MaxHistory
    /\ called' = CacheCall("get", key, "-", Undefined(0),
            LET found == IF key \in DOMAIN mockCache.cache
                         THEN mockCache.cache[key] ELSE "undefined"
            IN IF Falsy(found) THEN "null" ELSE found)
    /\ mockCache' = [mockCache EXCEPT !.getHistory = Append(@, key)]
    /\ UNCHANGED <<cache, now, exceptCalled>>

\* set(key, value, ttl)
MockCache_set(key, value, ttl) ==
    /\ Len(mockCache.setHistory) < MaxHistory
    /\ called' = CacheCall("set", key, value, ttl, "-")
    /\ mockCache' = [mockCache EXCEPT
            !.cache = [k \in DOMAIN @ \cup {key} |->
                          IF k = key THEN value ELSE @[k]],
            !.setHistory =
                Append(@, [key |-> key, value |-> value, ttl |-> ttl])]
    /\ UNCHANGED <<cache, now, exceptCalled>>

\* remove(key)
MockCache_remove(key) ==
    /\ Len(mockCache.removeHistory) < MaxHistory
    /\ called' = CacheCall("remove", key, "-", Undefined(0), "-")
    /\ mockCache' = [mockCache EXCEPT
            !.cache = [k \in DOMAIN @ \ {key} |-> @[k]],
            !.removeHistory = Append(@, key)]
    /\ UNCHANGED <<cache, now, exceptCalled>>

\* clear()
MockCache_clear ==
    /\ mockCache.clearHistory < MaxHistory
    /\ called' = CacheCall("clear", "", "-", Undefined(0), "-")
    /\ mockCache' = [mockCache EXCEPT !.cache = EmptyMap,
                                      !.clearHistory = @ + 1]
    /\ UNCHANGED <<cache, now, exceptCalled>>

\* resetHistory()
MockCache_resetHistory ==
    /\ called' = CacheCall("resetHistory", "", "-", Undefined(0), "-")
    /\ mockCache' = [mockCache EXCEPT !.getHistory = <<>>,
                                      !.setHistory = <<>>,
                                      !.removeHistory = <<>>,
                                      !.clearHistory = 0]
    /\ UNCHANGED <<cache, now, exceptCalled>>

MockCacheNext ==
    \/ \E key \in {"k1", "k2"} : MockCache_get(key)
    \/ \E key \in {"k1", "k2"}, value \in {"'v'", "0"},
          ttl \in {Undefined(0), Defined(60000)} :
          MockCache_set(key, value, ttl)
    \/ \E key \in {"k1", "k2"} : MockCache_remove(key)
    \/ MockCache_clear
    \/ MockCache_resetHistory

-----------------------------------------------------------------------------
(* AuthenticatedDecorator                                                  *)

\* A string, one character after the other
BearerPrefix == <<"B", "e", "a", "r", "e", "r", " ">>

\* String.prototype.startsWith
startsWith(text, prefix) ==
    /\ Len(text) >= Len(prefix)
    /\ SubSeq(text, 1, Len(prefix)) = prefix

\* What tokenProvider() returns: null, undefined or a string
NullToken == [kind |-> "null", text |-> <<>>]
UndefinedToken == [kind |-> "undefined", text |-> <<>>]
StringToken(text) == [kind |-> "string", text |-> text]

Tokens ==
    {NullToken, UndefinedToken}
    \cup {StringToken(t) : t \in
            {<<>>, <<"a", "b", "c">>, BearerPrefix \o <<"a", "b", "c">>,
             BearerPrefix, <<"B", "e", "a", "r", "e", "r">>,
             <<"b", "e", "a", "r", "e", "r", " ", "a", "b", "c">>,
             <<" ">> \o BearerPrefix \o <<"a", "b", "c">>,
             BearerPrefix \o BearerPrefix \o <<"a", "b", "c">>}}

\* !token is false: the token is a string that is not empty
TruthyToken(token) == token.kind = "string" /\ token.text # <<>>

\* A bug: the header value is always made by prefixing
AuthHeaderValueAlwaysPrefixed(text) == BearerPrefix \o text

\* token.startsWith('Bearer ') ? token : `Bearer ${token}`
AuthHeaderValue(text) ==
    IF startsWith(text, BearerPrefix) THEN text ELSE BearerPrefix \o text

\* A bug: the headers of the caller are spread after the computed header
authHeadersCallerWins(headers, headerName, text) ==
    [n \in DOMAIN headers \cup {headerName} |->
        IF n \in DOMAIN headers THEN headers[n] ELSE AuthHeaderValue(text)]

\* { ...headers, [this.headerName]: ... }
authHeaders(headers, headerName, text) ==
    [n \in DOMAIN headers \cup {headerName} |->
        IF n = headerName THEN AuthHeaderValue(text) ELSE headers[n]]

\* The endpoints needsAuth is true of, and headerName
AuthConfigs ==
    [needsAuth : SUBSET Endpoints,
     headerName : {"Authorization", "X-Custom-Auth"}]

\* headers?: Record<string, string>: a map from names to strings
AuthHeaderArgs ==
    {Undefined(EmptyMap), Defined(EmptyMap),
     Defined("X-Custom-Header" :> <<"v">>),
     Defined("Authorization" :> <<"o", "l", "d">>),
     Defined("X-Custom-Header" :> <<"v">> @@ "Authorization" :> <<"o", "l", "d">>),
     Defined("X-Custom-Auth" :> BearerPrefix \o <<"o", "l", "d">>)}

\* The requests made through the AuthenticatedDecorator
AuthRequestArgs ==
    [endpoint : Endpoints, method : {"GET", "POST"},
     body : {Undefined(<<>>), Defined(<< <<"a", "1">> >>)},
     responseType : ResponseTypes, headers : AuthHeaderArgs]

\* The errors the wrapped contract rejects with (the AuthenticatedDecorator
\* does not look at them)
AuthErrors == {NetworkError_unauthorized, NetworkError_httpError(500), ForeignError}

\* A call that has not been made yet.  args holds the parameters of request(),
\* needsAuthCalls the arguments needsAuth was called with, tokens what the
\* calls of tokenProvider returned, wrappedCalls the arguments of the calls of
\* this.wrapped.request, wrappedOutcome how that call ended, outcome how
\* request() ended.
AuthIdle ==
    [pc |-> "idle",
     args |-> [endpoint |-> "", method |-> "", body |-> Undefined(<<>>),
               responseType |-> Undefined("-"), headers |-> Undefined(EmptyMap)],
     needsAuthCalls |-> <<>>, tokens |-> <<>>,
     wrappedCalls |-> <<>>, wrappedOutcome |-> Pending, outcome |-> Pending]

\* A parameter declared "headers: Record<string, string> = {}"
AuthDefaultHeaders(args) ==
    [args EXCEPT !.headers = IF @.defined THEN @ ELSE Defined(EmptyMap)]

\* A bug: every endpoint is taken to need authentication
needsAuthEveryEndpoint(endpoint) == TRUE

\* this.needsAuth(endpoint)
needsAuth(endpoint) == endpoint \in authConfig.needsAuth

\* A bug: only a null token counts as missing
MissingTokenOnlyNull(token) == token.kind = "null"

\* !token
MissingToken(token) == ~TruthyToken(token)

\* request(), up to the call of this.wrapped.request or the throw
AuthRequest(c, args, token) ==
    /\ auth[c].pc = "idle"
    /\ LET a == AuthDefaultHeaders(args)
           started == [auth[c] EXCEPT !.args = a,
                          !.needsAuthCalls = Append(@, a.endpoint)] IN
       auth' = [auth EXCEPT ![c] =
          IF needsAuth(a.endpoint)
          THEN IF MissingToken(token)
               THEN [started EXCEPT !.pc = "done",
                        !.tokens = Append(@, token),
                        !.outcome = Thrown(NetworkError_unauthorized)]
               ELSE [started EXCEPT !.pc = "awaitWrapped",
                        !.tokens = Append(@, token),
                        !.wrappedCalls = Append(@,
                            [a EXCEPT !.headers = Defined(
                                authHeaders(a.headers.val,
                                            authConfig.headerName,
                                            token.text))])]
          ELSE [started EXCEPT !.pc = "awaitWrapped",
                   !.wrappedCalls = Append(@, a)]]
    /\ UNCHANGED <<authConfig, exceptAuth>>

\* The promise of this.wrapped.request settles: request() settles the same way
AuthWrappedSettles(c, result) ==
    /\ auth[c].pc = "awaitWrapped"
    /\ auth' = [auth EXCEPT
            ![c].pc = "done",
            ![c].wrappedOutcome = result,
            ![c].outcome = result]
    /\ UNCHANGED <<authConfig, exceptAuth>>

AuthNext ==
    \/ \E c \in DOMAIN auth, args \in AuthRequestArgs, token \in Tokens :
          AuthRequest(c, args, token)
    \/ \E c \in DOMAIN auth, v \in Values : AuthWrappedSettles(c, Returned(v))
    \/ \E c \in DOMAIN auth, e \in AuthErrors : AuthWrappedSettles(c, Thrown(e))

-----------------------------------------------------------------------------
(* authenticated(cached(retry(fallback(primary, secondary)))): the four      *)
(* decorators stacked, each the wrapped contract of the one above.  A call   *)
(* of request() runs the callee up to its first await, so a request goes     *)
(* down the stack in one step, and a promise that settles takes the layers   *)
(* above it along, with no await of anything else in between.  The requests  *)
(* are issued one after the other: each when the one before has ended.       *)

\* The configurations of the stack: a RetryDecorator of three attempts or of
\* one, the others as constructed by default
StackRetryPolicies ==
    {DEFAULT_RETRY_OPTIONS,
     RetryDecorator({"maxAttempts"}, [DEFAULT_RETRY_OPTIONS EXCEPT !.maxAttempts = 1])}

StackAuthConfigs == [needsAuth : {{}, {"/a"}}, headerName : {"Authorization"}]

StackRequestArgs ==
    [endpoint : {"/a"}, method : {"GET", "POST"}, body : {Undefined(<<>>)},
     responseType : {Undefined("-")},
     headers : {Undefined(EmptyMap), Defined("X-Custom-Header" :> <<"v">>)}]

StackTokens == {NullToken, StringToken(<<"a", "b", "c">>)}

\* The errors primary and secondary reject with
StackErrors ==
    {NetworkError_networkFailure, NetworkError_httpError(404), ForeignError}

\* A call that has not been made yet.  order is its place among the calls
\* made; args holds the parameters of the outermost request(), sent the
\* arguments the AuthenticatedDecorator passed on, ops the calls made on the
\* Cache, retry the locals of RetryDecorator.request(); primaryCalls and
\* secondaryCalls count the invocations of the two contracts at the bottom,
\* from tells which of them the value returned came from, outcome is how the
\* outermost request() ended.
StackIdle ==
    [pc |-> "idle", order |-> 0,
     args |-> [endpoint |-> "", method |-> "", body |-> Undefined(<<>>),
               responseType |-> Undefined("-"), headers |-> Undefined(EmptyMap)],
     sent |-> [endpoint |-> "", method |-> "", body |-> Undefined(<<>>),
               responseType |-> Undefined("-"), headers |-> Undefined(EmptyMap)],
     tokens |-> <<>>, cacheKey |-> "", ops |-> <<>>, retry |-> RetryIdle,
     primaryCalls |-> 0, secondaryCalls |-> 0, from |-> "-",
     outcome |-> Pending]

\* RetryDecorator.request() has come to the head of its loop with locals r:
\* it calls FallbackDecorator.request(), which calls the primary, or it throws
\* and the error goes up through CacheDecorator and AuthenticatedDecorator
StackRetryGoesOn(q, r) ==
    IF r.pc = "awaitWrapped"
    THEN [q EXCEPT !.pc = "awaitPrimary", !.retry = r,
                   !.primaryCalls = @ + 1]
    ELSE [q EXCEPT !.pc = "done", !.retry = r, !.outcome = r.outcome]

\* FallbackDecorator.request() has thrown error: the catch block of
\* RetryDecorator.request(), up to await delay(waitTime) or the throw
StackFallbackThrows(q, error) ==
    LET r == RetryCatch(retryOptions, q.retry, error) IN
    IF r.pc = "awaitDelay"
    THEN [q EXCEPT !.pc = "awaitDelay", !.retry = r]
    ELSE [q EXCEPT !.pc = "done", !.retry = r, !.outcome = r.outcome]


\* A bug: the cache is asked before the token (cached(authenticated(x))): a
\* request without token is served an entry stored for its key
StackRequestCacheFirst(c, args, token) ==
    /\ stack[c].pc = "idle"
    /\ \A d \in DOMAIN stack : stack[d].pc \in {"idle", "done"}
    /\ LET a == AuthDefaultHeaders(args)
           n == Cardinality({d \in DOMAIN stack : stack[d].pc # "idle"}) + 1
           q0 == [stack[c] EXCEPT !.order = n, !.args = a]
           authed == needsAuth(a.endpoint)
           below == IF authed /\ ~MissingToken(token)
                    THEN [a EXCEPT !.headers = Defined(
                             authHeaders(a.headers.val, authConfig.headerName,
                                         token.text))]
                    ELSE a
           q1 == [q0 EXCEPT !.sent = below,
                            !.tokens = IF authed THEN <<token>> ELSE <<>>]
           key == generateCacheKey(below.endpoint, below.method, below.body)
           cachedResponse == MemoryCache_get(cache, now, key)
           r0 == RetryLoop(retryOptions,
                           [RetryIdle EXCEPT
                               !.waitTime = retryOptions.initialDelay])
           q2 == [q1 EXCEPT !.cacheKey = key, !.ops = <<<<"get", key>>>>]
       IN IF Cacheable(below.method)
          THEN /\ cache' = MemoryCache_afterGet(cache, now, key)
               /\ stack' = [stack EXCEPT ![c] =
                     IF cachedResponse # "null"
                     THEN [q2 EXCEPT !.pc = "done", !.from = "cache",
                                     !.outcome = Returned(cachedResponse)]
                     ELSE IF authed /\ MissingToken(token)
                     THEN [q2 EXCEPT !.pc = "done",
                              !.outcome = Thrown(NetworkError_unauthorized)]
                     ELSE StackRetryGoesOn(q2, r0)]
          ELSE /\ cache' = cache
               /\ stack' = [stack EXCEPT ![c] =
                     IF authed /\ MissingToken(token)
                     THEN [q1 EXCEPT !.pc = "done",
                              !.outcome = Thrown(NetworkError_unauthorized)]
                     ELSE StackRetryGoesOn(q1, r0)]
    /\ UNCHANGED <<retryOptions, fallbackOptions, cacheConfig, now,
                   authConfig, exceptStack>>

\* The outermost request(), down to the first await
StackRequest(c, args, token) ==
    /\ stack[c].pc = "idle"
    /\ \A d \in DOMAIN stack : stack[d].pc \in {"idle", "done"}
    /\ LET a == AuthDefaultHeaders(args)
           n == Cardinality({d \in DOMAIN stack : stack[d].pc # "idle"}) + 1
           q0 == [stack[c] EXCEPT !.order = n, !.args = a]
           authed == needsAuth(a.endpoint)
           below == IF authed
                    THEN [a EXCEPT !.headers = Defined(
                             authHeaders(a.headers.val, authConfig.headerName,
                                         token.text))]
                    ELSE a
           q1 == [q0 EXCEPT !.sent = below,
                            !.tokens = IF authed THEN <<token>> ELSE <<>>]
           key == generateCacheKey(below.endpoint, below.method, below.body)
           cachedResponse == MemoryCache_get(cache, now, key)
           r0 == RetryLoop(retryOptions,
                           [RetryIdle EXCEPT
                               !.waitTime = retryOptions.initialDelay])
       IN IF authed /\ MissingToken(token)
          THEN /\ stack' = [stack EXCEPT ![c] =
                     [q0 EXCEPT !.pc = "done", !.tokens = <<token>>,
                                !.outcome = Thrown(NetworkError_unauthorized)]]
               /\ cache' = cache
          ELSE IF Cacheable(below.method)
          THEN /\ cache' = MemoryCache_afterGet(cache, now, key)
               /\ stack' = [stack EXCEPT ![c] =
                     LET q2 == [q1 EXCEPT !.cacheKey = key,
                                          !.ops = <<<<"get", key>>>>] IN
                     IF cachedResponse # "null"
                     THEN [q2 EXCEPT !.pc = "done", !.from = "cache",
                                     !.outcome = Returned(cachedResponse)]
                     ELSE StackRetryGoesOn(q2, r0)]
          ELSE /\ cache' = cache
               /\ stack' = [stack EXCEPT ![c] = StackRetryGoesOn(q1, r0)]
    /\ UNCHANGED <<retryOptions, fallbackOptions, cacheConfig, now,
                   authConfig, exceptStack>>

\* A value v comes up from FallbackDecorator.request(): RetryDecorator returns
\* it, CacheDecorator stores it for a cacheable method and returns it,
\* AuthenticatedDecorator settles with it
StackReturns(c, v, from) ==
    /\ cache' = IF Cacheable(stack[c].sent.method)
                THEN MemoryCache_set(cache, now, stack[c].cacheKey, v,
                                     cacheConfig.ttl)
                ELSE cache
    /\ stack' = [stack EXCEPT
            ![c].pc = "done",
            ![c].from = from,
            ![c].retry = [@ EXCEPT !.pc = "done", !.resolved = v,
                                   !.outcome = Returned(v)],
            ![c].ops = IF Cacheable(stack[c].sent.method)
                       THEN Append(@, <<"set", stack[c].cacheKey>>) ELSE @,
            ![c].outcome = Returned(v)]
    /\ UNCHANGED <<retryOptions, fallbackOptions, cacheConfig, now,
                   authConfig, exceptStack>>

\* The primary resolves
StackPrimaryResolves(c, v) ==
    /\ stack[c].pc = "awaitPrimary"
    /\ StackReturns(c, v, "primary")

\* The primary rejects: FallbackDecorator throws the error again or calls the
\* secondary
StackPrimaryRejects(c, error) ==
    /\ stack[c].pc = "awaitPrimary"
    /\ stack' = [stack EXCEPT ![c] =
            IF FallbackNotEligible(fallbackOptions, error)
            THEN StackFallbackThrows(@, error)
            ELSE [@ EXCEPT !.pc = "awaitSecondary",
                           !.secondaryCalls = @ + 1]]
    /\ UNCHANGED <<retryOptions, fallbackOptions, cacheConfig, cache, now,
                   authConfig, exceptStack>>

\* The secondary resolves
StackSecondaryResolves(c, v) ==
    /\ stack[c].pc = "awaitSecondary"
    /\ StackReturns(c, v, "secondary")

\* A bug: the failure of the secondary is swallowed and null returned
StackSecondaryRejectsSwallowed(c, error) ==
    /\ stack[c].pc = "awaitSecondary"
    /\ stack' = [stack EXCEPT ![c].pc = "done",
                              ![c].outcome = Returned("null")]
    /\ UNCHANGED <<retryOptions, fallbackOptions, cacheConfig, cache, now,
                   authConfig, exceptStack>>

\* The secondary rejects: FallbackDecorator throws its error
StackSecondaryRejects(c, error) ==
    /\ stack[c].pc = "awaitSecondary"
    /\ stack' = [stack EXCEPT ![c] = StackFallbackThrows(@, error)]
    /\ UNCHANGED <<retryOptions, fallbackOptions, cacheConfig, cache, now,
                   authConfig, exceptStack>>

\* The timer of delay(waitTime) fires in RetryDecorator.request()
StackDelayElapses(c) ==
    /\ stack[c].pc = "awaitDelay"
    /\ stack' = [stack EXCEPT ![c] =
            StackRetryGoesOn(@,
                RetryLoop(retryOptions,
                          [@.retry EXCEPT
                              !.waitTime = NextWaitTime(retryOptions, @),
                              !.attempt = @ + 1]))]
    /\ UNCHANGED <<retryOptions, fallbackOptions, cacheConfig, cache, now,
                   authConfig, exceptStack>>

StackNext ==
    \/ \E c \in DOMAIN stack, args \in StackRequestArgs, token \in StackTokens :
          StackRequest(c, args, token)
    \/ \E c \in DOMAIN stack, v \in Values : StackPrimaryResolves(c, v)
    \/ \E c \in DOMAIN stack, e \in StackErrors : StackPrimaryRejects(c, e)
    \/ \E c \in DOMAIN stack, v \in Values : StackSecondaryResolves(c, v)
    \/ \E c \in DOMAIN stack, e \in StackErrors : StackSecondaryRejects(c, e)
    \/ \E c \in DOMAIN stack : StackDelayElapses(c)

-----------------------------------------------------------------------------
(* Requests made at the same time: two through one RetryDecorator and one  *)
(* through a FallbackDecorator, on one event loop.  Every await is a point *)
(* where the steps of the other requests can come in between.              *)

\* The RetryDecorator of the concurrent requests: two attempts, or the
\* defaults (three attempts, the second wait twice the first)
ConcurrentRetryPolicies ==
    {RetryDecorator({"maxAttempts"},
                    [DEFAULT_RETRY_OPTIONS EXCEPT !.maxAttempts = 2]),
     DEFAULT_RETRY_OPTIONS}

ConcurrentValues == {"r1"}

ConcurrentErrors == {NetworkError_networkFailure, NetworkError_httpError(404)}

ConcurrentRequestArgs ==
    [endpoint : {"/a"}, method : {"GET"}, body : {Undefined(<<>>)},
     responseType : {Undefined("-")}, headers : {Undefined({})}]

ConcurrentNext ==
    \/ \E c \in DOMAIN retry : RetryRequest(c)
    \/ \E c \in DOMAIN retry, v \in ConcurrentValues :
          RetryWrappedResolves(c, v)
    \/ \E c \in DOMAIN retry, e \in ConcurrentErrors :
          RetryWrappedRejects(c, e)
    \/ \E c \in DOMAIN retry : RetryDelayElapses(c)
    \/ \E c \in DOMAIN fallback, args \in ConcurrentRequestArgs :
          FallbackRequest(c, args)
    \/ \E c \in DOMAIN fallback, v \in ConcurrentValues :
          FallbackPrimaryResolves(c, v)
    \/ \E c \in DOMAIN fallback, e \in ConcurrentErrors :
          FallbackPrimaryRejects(c, e)
    \/ \E c \in DOMAIN fallback, v \in ConcurrentValues :
          FallbackSecondaryResolves(c, v)
    \/ \E c \in DOMAIN fallback, e \in ConcurrentErrors :
          FallbackSecondaryRejects(c, e)

-----------------------------------------------------------------------------
(* fallback(retry(primary), secondary): the primary of the FallbackDecorator *)
(* is a RetryDecorator around the primary transport.  fallback[c] holds the  *)
(* call of FallbackDecorator.request() and retry[c] the call of              *)
(* RetryDecorator.request() it makes; when the latter settles the former     *)
(* goes on in the same step.                                                 *)

\* The policies of the RetryDecorator: the default one, and two attempts
ComposedRetryPolicies == ConcurrentRetryPolicies

\* What the rest of the model keeps while the composition runs
exceptComposed ==
    <<retryOptions, fallbackOptions, cacheVars, keyVars, authVars, stackVars,
      memoryVars,
      leafVars>>

\* RetryDecorator.request() has settled with locals r: FallbackDecorator
\* returns its value, throws its error again or calls the secondary
ComposedRetrySettles(f, r) ==
    IF r.outcome.ok
    THEN [f EXCEPT !.pc = "done", !.primaryOutcome = r.outcome,
                   !.outcome = r.outcome]
    ELSE IF FallbackNotEligible(fallbackOptions, r.outcome.error)
    THEN [f EXCEPT !.pc = "done", !.primaryOutcome = r.outcome,
                   !.outcome = r.outcome]
    ELSE [f EXCEPT !.pc = "awaitFallback", !.primaryOutcome = r.outcome,
                   !.fallbackCalls = Append(@, f.args)]

\* RetryDecorator.request() has come to an await or has settled, with locals r
ComposedRetryGoesOn(c, r) ==
    /\ retry' = [retry EXCEPT ![c] = r]
    /\ fallback' = [fallback EXCEPT ![c] =
            IF r.pc = "done" THEN ComposedRetrySettles(@, r) ELSE @]
    /\ UNCHANGED exceptComposed

\* FallbackDecorator.request(), down to the first invocation of the primary
\* transport by RetryDecorator.request()
ComposedRequest(c, args) ==
    /\ fallback[c].pc = "idle"
    /\ LET f == [fallback[c] EXCEPT
                    !.pc = "awaitPrimary",
                    !.args = DefaultHeaders(args),
                    !.primaryCalls = Append(@, DefaultHeaders(args))]
           r == RetryLoop(retryOptions,
                          [RetryIdle EXCEPT
                              !.waitTime = retryOptions.initialDelay])
       IN /\ retry' = [retry EXCEPT ![c] = r]
          /\ fallback' = [fallback EXCEPT ![c] =
                 IF r.pc = "done" THEN ComposedRetrySettles(f, r) ELSE f]
    /\ UNCHANGED exceptComposed

\* The primary transport resolves: both decorators return its value
ComposedPrimaryResolves(c, v) ==
    /\ fallback[c].pc = "awaitPrimary"
    /\ retry[c].pc = "awaitWrapped"
    /\ ComposedRetryGoesOn(c, [retry[c] EXCEPT !.pc = "done", !.resolved = v,
                                               !.outcome = Returned(v)])

\* A bug: the first failure of the primary transport is taken for the last
\* attempt, so that the secondary is called before any retry
ComposedPrimaryRejectsNoRetry(c, error) ==
    /\ fallback[c].pc = "awaitPrimary"
    /\ retry[c].pc = "awaitWrapped"
    /\ ComposedRetryGoesOn(c,
            RetryCatch(retryOptions,
                       [retry[c] EXCEPT
                           !.attempt = retryOptions.maxAttempts - 1],
                       error))

\* The primary transport rejects: the catch block of RetryDecorator.request()
ComposedPrimaryRejects(c, error) ==
    /\ fallback[c].pc = "awaitPrimary"
    /\ retry[c].pc = "awaitWrapped"
    /\ ComposedRetryGoesOn(c, RetryCatch(retryOptions, retry[c], error))

\* The timer of delay(waitTime) fires in RetryDecorator.request()
ComposedDelayElapses(c) ==
    /\ fallback[c].pc = "awaitPrimary"
    /\ retry[c].pc = "awaitDelay"
    /\ ComposedRetryGoesOn(c,
            RetryLoop(retryOptions,
                      [retry[c] EXCEPT
                          !.waitTime = NextWaitTime(retryOptions, @),
                          !.attempt = @ + 1]))

\* The secondary transport settles: FallbackDecorator.request() settles the
\* same way
ComposedSecondarySettles(c, result) ==
    /\ fallback[c].pc = "awaitFallback"
    /\ fallback' = [fallback EXCEPT
            ![c].pc = "done",
            ![c].fallbackOutcome = result,
            ![c].outcome = result]
    /\ UNCHANGED <<retry, exceptComposed>>

ComposedNext ==
    \/ \E c \in DOMAIN fallback, args \in ConcurrentRequestArgs :
          ComposedRequest(c, args)
    \/ \E c \in DOMAIN fallback, v \in Values : ComposedPrimaryResolves(c, v)
    \/ \E c \in DOMAIN fallback, e \in Errors : ComposedPrimaryRejects(c, e)
    \/ \E c \in DOMAIN fallback : ComposedDelayElapses(c)
    \/ \E c \in DOMAIN fallback, v \in Values :
          ComposedSecondarySettles(c, Returned(v))
    \/ \E c \in DOMAIN fallback, e \in Errors :
          ComposedSecondarySettles(c, Thrown(e))

-----------------------------------------------------------------------------
(* The objects behind the options: JavaScript objects and arrays are held  *)
(* by reference.  memory.arrays maps each array of error kinds to its      *)
(* elements, memory.objects each option object the caller can reach to its *)
(* fields (an array field holds a reference), memory.retryHeld and         *)
(* memory.fallbackHeld are the this.options of the two decorators.         *)
(* retryOptions and fallbackOptions are what the decorators read through   *)
(* this.options: the held object with its array looked up.                 *)

\* The arrays: of the exported defaults, of the caller, and one the caller
\* makes after the construction
ArrayRefs ==
    {"defaultRetryKinds", "defaultFallbackKinds", "callerRetryKinds",
     "callerFallbackKinds", "newKinds"}

\* The option objects the caller can reach, and the fields of each
CallerObjects ==
    [DEFAULT_RETRY_OPTIONS |-> RetryFields,
     retryGiven |-> RetryFields,
     DEFAULT_FALLBACK_OPTIONS |-> {"fallbackErrors"},
     fallbackGiven |-> {"fallbackErrors"}]

ArrayFields == {"retryableErrors", "fallbackErrors"}

\* The object has the field as an own property
Has(object, field) == DOMAIN object # {} /\ field \in DOMAIN object

\* { ...defaults, ...options }: a new object, each field holding what the
\* field of options (else of defaults) holds, an array by reference
Spread(defaults, options) ==
    [k \in {f \in RetryFields \cup ArrayFields :
                Has(defaults, f) \/ Has(options, f)} |->
        IF Has(options, k) THEN options[k] ELSE defaults[k]]

\* An object with the fields in given only
Partial(object, given) == [k \in given |-> object[k]]

\* The options objects passed to the constructors (Partial<RetryOptions>,
\* Partial<FallbackOptions>)
SharedRetryGiven ==
    {Partial([maxAttempts |-> 2, initialDelay |-> 100, maxDelay |-> 1000,
              backoffFactor |-> 1, retryableErrors |-> "callerRetryKinds"],
             given) : given \in {{}, {"maxAttempts", "retryableErrors"}}}

SharedFallbackGiven ==
    {Partial([fallbackErrors |-> "callerFallbackKinds"], given) :
        given \in {{}, {"fallbackErrors"}}}

\* The memory after new RetryDecorator(wrapped, retryGiven) and
\* new FallbackDecorator(primary, secondary, fallbackGiven)
Constructed(retryGiven, fallbackGiven) ==
    LET defaultRetry == [DEFAULT_RETRY_OPTIONS EXCEPT
                            !.retryableErrors = "defaultRetryKinds"]
        defaultFallback == [fallbackErrors |-> "defaultFallbackKinds"]
    IN [arrays |->
            [r \in ArrayRefs |->
                CASE r = "defaultRetryKinds" ->
                        DEFAULT_RETRY_OPTIONS.retryableErrors
                  [] r = "defaultFallbackKinds" ->
                        DEFAULT_FALLBACK_OPTIONS.fallbackErrors
                  [] r = "newKinds" -> {}
                  [] OTHER -> {"NETWORK_FAILURE"}],
        objects |->
            [DEFAULT_RETRY_OPTIONS |-> defaultRetry,
             retryGiven |-> retryGiven,
             DEFAULT_FALLBACK_OPTIONS |-> defaultFallback,
             fallbackGiven |-> fallbackGiven],
        retryHeld |-> Spread(defaultRetry, retryGiven),
        fallbackHeld |-> Spread(defaultFallback, fallbackGiven)]

\* this.options as request() reads it: this.options.retryableErrors is the
\* array the field refers to, as it is now
HeldRetryOptions(m) ==
    [m.retryHeld EXCEPT !.retryableErrors = m.arrays[@]]

HeldFallbackOptions(m) ==
    [m.fallbackHeld EXCEPT !.fallbackErrors = m.arrays[@]]

\* The caller has changed the memory to m
CallerChanges(m) ==
    /\ memory' = m
    /\ retryOptions' = HeldRetryOptions(m)
    /\ fallbackOptions' = HeldFallbackOptions(m)
    /\ UNCHANGED <<retry, fallback, cacheVars, keyVars, authVars, stackVars,
                   leafVars>>

\* The caller assigns to a field of an object it can reach: a number to a
\* number field, another array to an array field
CallerAssigns(name, field) ==
    /\ field \in CallerObjects[name]
    /\ LET value == IF field \in ArrayFields THEN "newKinds" ELSE 1 IN
       /\ (Has(memory.objects[name], field)
              => memory.objects[name][field] # value)
       /\ CallerChanges([memory EXCEPT
              !.objects[name] = Spread(@, [k \in {field} |-> value])])

\* The caller pushes an error kind on an array it can reach
CallerPushes(ref, kind) ==
    /\ kind \notin memory.arrays[ref]
    /\ CallerChanges([memory EXCEPT !.arrays[ref] = @ \cup {kind}])

SharedNext ==
    \/ \E name \in DOMAIN CallerObjects :
          \E field \in {"maxAttempts"} \cup ArrayFields :
              CallerAssigns(name, field)
    \/ \E ref \in ArrayRefs : CallerPushes(ref, "UNAUTHORIZED")
    \/ \E c \in DOMAIN retry : RetryRequest(c)
    \/ \E c \in DOMAIN retry, v \in ConcurrentValues :
          RetryWrappedResolves(c, v)
    \/ \E c \in DOMAIN retry, e \in {NetworkError_unauthorized} :
          RetryWrappedRejects(c, e)
    \/ \E c \in DOMAIN retry : RetryDelayElapses(c)

-----------------------------------------------------------------------------
(* BaseNetworkRequestable under a RetryDecorator (retry(base)) and as the  *)
(* primary of a FallbackDecorator (fallback(base, secondary)).  base[s]    *)
(* lists the calls of BaseNetworkRequestable.request() that the decorator  *)
(* of stack s has made, the last one being the one it awaits.  fetch and   *)
(* the reading of the response body end as the environment chooses.        *)

\* A JavaScript error that is not a NetworkError, by its name
JSError(name) ==
    [typed |-> FALSE, type |-> name, hasStatus |-> FALSE, statusCode |-> 0]

\* What the calls of request() on the transport leave alone
exceptBase ==
    <<retryVars, fallbackVars, cacheVars, keyVars, authVars, stackVars,
      memoryVars, called, mockCache>>

\* The number of calls of this.wrapped.request (this.primary.request) the
\* decorator of stack s has made
BaseInvoked(s) ==
    IF s = "retry" THEN retry[1].invocations
    ELSE Len(fallback[1].primaryCalls)

\* The call of request() the decorator of stack s has made last
BaseCall(s) == base[s][Len(base[s])]

\* A bug: every error caught is rethrown as CUSTOM
BaseCatchAllCustom(error) == NetworkError_custom

\* The catch block, lines 154-167: what request() rejects with
BaseCatch(error) ==
    IF ~error.typed /\ error.type = "AbortError" THEN NetworkError_timeout
    ELSE IF error.typed THEN error
    ELSE NetworkError_custom

\* request(): lines 106-124, up to await fetch(url, options)
BaseRequest(s) ==
    /\ Len(base[s]) < BaseInvoked(s)
    /\ base' = [base EXCEPT ![s] =
            Append(@, [pc |-> "awaitFetch", status |-> 0, thrown |-> NoError,
                       outcome |-> Pending])]
    /\ UNCHANGED exceptBase

\* fetch resolves with a response: lines 127-142, up to the next await
BaseFetchResolves(s, status, json) ==
    /\ base[s] # <<>> /\ BaseCall(s).pc = "awaitFetch"
    /\ base' = [base EXCEPT ![s][Len(base[s])] =
            IF status \notin 200..299
            THEN [@ EXCEPT
                    !.pc = "done", !.status = status,
                    !.outcome =
                        Thrown(BaseCatch(IF status = 401
                                         THEN NetworkError_unauthorized
                                         ELSE NetworkError_httpError(status)))]
            ELSE [@ EXCEPT !.pc = IF json THEN "awaitJson" ELSE "awaitText",
                           !.status = status]]
    /\ UNCHANGED exceptBase

\* fetch rejects (the abort of the timeout, or a failure of the transport)
BaseFetchRejects(s, error) ==
    /\ base[s] # <<>> /\ BaseCall(s).pc = "awaitFetch"
    /\ base' = [base EXCEPT ![s][Len(base[s])] =
            [@ EXCEPT !.pc = "done", !.thrown = error,
                      !.outcome = Thrown(BaseCatch(error))]]
    /\ UNCHANGED exceptBase

\* response.json() or response.text() resolves: lines 138-152
BaseBodyResolves(s, content) ==
    /\ base[s] # <<>> /\ BaseCall(s).pc \in {"awaitJson", "awaitText"}
    /\ base' = [base EXCEPT ![s][Len(base[s])] =
            IF @.pc = "awaitText" /\ content = ""
            THEN [@ EXCEPT !.pc = "done",
                           !.outcome = Thrown(BaseCatch(NetworkError_noData))]
            ELSE [@ EXCEPT !.pc = "done", !.outcome = Returned(content)]]
    /\ UNCHANGED exceptBase

\* response.json() or response.text() rejects
BaseBodyRejects(s, error) ==
    /\ base[s] # <<>> /\ BaseCall(s).pc \in {"awaitJson", "awaitText"}
    /\ base' = [base EXCEPT ![s][Len(base[s])] =
            [@ EXCEPT !.pc = "done", !.thrown = error,
                      !.outcome = Thrown(BaseCatch(error))]]
    /\ UNCHANGED exceptBase

\* How the call the decorator of stack s awaits has ended, if it has
BaseSettled(s) ==
    IF /\ base[s] # <<>> /\ Len(base[s]) = BaseInvoked(s)
       /\ BaseCall(s).pc = "done"
    THEN {BaseCall(s).outcome}
    ELSE {}

BaseNext ==
    \/ \E c \in DOMAIN retry : RetryRequest(c)
    \/ \E c \in DOMAIN fallback, args \in ConcurrentRequestArgs :
          FallbackRequest(c, args)
    \/ \E s \in DOMAIN base : BaseRequest(s)
    \/ \E s \in DOMAIN base, status \in {200, 304, 401, 404, 500},
          json \in BOOLEAN :
          BaseFetchResolves(s, status, json)
    \/ \E s \in DOMAIN base,
          error \in {JSError("AbortError"), JSError("TypeError")} :
          BaseFetchRejects(s, error)
    \/ \E s \in DOMAIN base, content \in {"", "r1", "null"} :
          BaseBodyResolves(s, content)
    \/ \E s \in DOMAIN base : BaseBodyRejects(s, JSError("SyntaxError"))
    \/ \E c \in DOMAIN retry, o \in BaseSettled("retry") :
          o.ok /\ RetryWrappedResolves(c, o.value)
    \/ \E c \in DOMAIN retry, o \in BaseSettled("retry") :
          ~o.ok /\ RetryWrappedRejects(c, o.error)
    \/ \E c \in DOMAIN retry : RetryDelayElapses(c)
    \/ \E c \in DOMAIN fallback, o \in BaseSettled("fallback") :
          o.ok /\ FallbackPrimaryResolves(c, o.value)
    \/ \E c \in DOMAIN fallback, o \in BaseSettled("fallback") :
          ~o.ok /\ FallbackPrimaryRejects(c, o.error)
    \/ \E c \in DOMAIN fallback, v \in ConcurrentValues :
          FallbackSecondaryResolves(c, v)
    \/ \E c \in DOMAIN fallback, e \in ConcurrentErrors :
          FallbackSecondaryRejects(c, e)

-----------------------------------------------------------------------------
(* Initial states                                                          *)

FallbackInitOther ==
    /\ fallbackOptions = [fallbackErrors |-> {}]
    /\ fallback = <<>>

CacheInitOther ==
    /\ cacheConfig = [ttl |-> Undefined(0), cacheMethods |-> {"GET"}]
    /\ cache = EmptyMap
    /\ now = 0
    /\ cached = <<>>
    /\ lastStored = NoStore

KeyInitOther == keyed = <<>>

AuthInitOther ==
    /\ authConfig = [needsAuth |-> {}, headerName |-> "Authorization"]
    /\ auth = <<>>

StackInitOther == stack = <<>>

MemoryInitOther == memory = <<>>

LeafInitOther ==
    /\ called = [op |-> "none", key |-> "", value |-> "-",
                 ttl |-> Undefined(0), result |-> "-", at |-> 0]
    /\ mockCache = <<>>
    /\ base = <<>>

RetryInit ==
    /\ retryOptions \in RetryPolicies
    /\ retry = [c \in {1} |-> RetryIdle]
    /\ FallbackInitOther
    /\ CacheInitOther
    /\ KeyInitOther
    /\ AuthInitOther
    /\ StackInitOther
    /\ MemoryInitOther
    /\ LeafInitOther

SpecRetry == RetryInit /\ [][RetryNext]_vars

RetryInitOther ==
    /\ retryOptions = DEFAULT_RETRY_OPTIONS
    /\ retry = <<>>

FallbackInit ==
    /\ fallbackOptions \in FallbackPolicies
    /\ fallback = [c \in {1} |-> FallbackIdle]
    /\ RetryInitOther
    /\ CacheInitOther
    /\ KeyInitOther
    /\ AuthInitOther
    /\ StackInitOther
    /\ MemoryInitOther
    /\ LeafInitOther

SpecFallback == FallbackInit /\ [][FallbackNext]_vars

CacheInit ==
    /\ cacheConfig \in CacheConfigs
    /\ cache = EmptyMap
    /\ now = 0
    /\ cached = [c \in CacheCalls |-> CacheIdle]
    /\ lastStored = NoStore
    /\ RetryInitOther
    /\ FallbackInitOther
    /\ KeyInitOther
    /\ AuthInitOther
    /\ StackInitOther
    /\ MemoryInitOther
    /\ LeafInitOther

SpecCache == CacheInit /\ [][CacheNext]_vars

KeyInit ==
    /\ keyed \in [{1, 2} -> KeyCalls]
    /\ RetryInitOther
    /\ FallbackInitOther
    /\ CacheInitOther
    /\ AuthInitOther
    /\ StackInitOther
    /\ MemoryInitOther
    /\ LeafInitOther

SpecKey == KeyInit /\ [][KeyNext]_vars

AuthInit ==
    /\ authConfig \in AuthConfigs
    /\ auth = [c \in {1} |-> AuthIdle]
    /\ RetryInitOther
    /\ FallbackInitOther
    /\ CacheInitOther
    /\ KeyInitOther
    /\ StackInitOther
    /\ MemoryInitOther
    /\ LeafInitOther

SpecAuth == AuthInit /\ [][AuthNext]_vars

StackInit ==
    /\ retryOptions \in StackRetryPolicies
    /\ fallbackOptions = DEFAULT_FALLBACK_OPTIONS
    /\ cacheConfig = [ttl |-> Undefined(0), cacheMethods |-> {"GET"}]
    /\ cache = EmptyMap
    /\ now = 0
    /\ authConfig \in StackAuthConfigs
    /\ stack = [c \in {1, 2} |-> StackIdle]
    /\ retry = <<>>
    /\ fallback = <<>>
    /\ cached = <<>>
    /\ lastStored = NoStore
    /\ auth = <<>>
    /\ KeyInitOther
    /\ MemoryInitOther
    /\ LeafInitOther

SpecStack == StackInit /\ [][StackNext]_vars

\* The invocation of the primary made by call c completes, one way or the other
StackPrimarySettles(c) ==
    \/ \E v \in Values : StackPrimaryResolves(c, v)
    \/ \E e \in StackErrors : StackPrimaryRejects(c, e)

\* The invocation of the secondary made by call c completes
StackSecondarySettles(c) ==
    \/ \E v \in Values : StackSecondaryResolves(c, v)
    \/ \E e \in StackErrors : StackSecondaryRejects(c, e)

\* Every invocation of the transports completes and every timer set by
\* delay() fires; nothing makes a caller call request()
StackFairness ==
    \A c \in {1, 2} :
        /\ WF_vars(StackPrimarySettles(c))
        /\ WF_vars(StackSecondarySettles(c))
        /\ WF_vars(StackDelayElapses(c))

SpecStackLive == StackInit /\ [][StackNext]_vars /\ StackFairness

ConcurrentInit ==
    /\ retryOptions \in ConcurrentRetryPolicies
    /\ retry = [c \in {1, 2} |-> RetryIdle]
    /\ fallbackOptions = DEFAULT_FALLBACK_OPTIONS
    /\ fallback = [c \in {1} |-> FallbackIdle]
    /\ CacheInitOther
    /\ KeyInitOther
    /\ AuthInitOther
    /\ StackInitOther
    /\ MemoryInitOther
    /\ LeafInitOther

SpecConcurrent == ConcurrentInit /\ [][ConcurrentNext]_vars

ComposedInit ==
    /\ retryOptions \in ComposedRetryPolicies
    /\ retry = [c \in {1} |-> RetryIdle]
    /\ fallbackOptions \in FallbackPolicies
    /\ fallback = [c \in {1} |-> FallbackIdle]
    /\ CacheInitOther
    /\ KeyInitOther
    /\ AuthInitOther
    /\ StackInitOther
    /\ MemoryInitOther
    /\ LeafInitOther

SpecComposed == ComposedInit /\ [][ComposedNext]_vars

SharedInit ==
    /\ memory \in {Constructed(r, f) : r \in SharedRetryGiven,
                                       f \in SharedFallbackGiven}
    /\ retryOptions = HeldRetryOptions(memory)
    /\ fallbackOptions = HeldFallbackOptions(memory)
    /\ retry = [c \in {1} |-> RetryIdle]
    /\ fallback = <<>>
    /\ CacheInitOther
    /\ KeyInitOther
    /\ AuthInitOther
    /\ StackInitOther
    /\ LeafInitOther

SpecShared == SharedInit /\ [][SharedNext]_vars

MemoryCacheInit ==
    /\ cache = EmptyMap
    /\ now = 0
    /\ cacheConfig = [ttl |-> Undefined(0), cacheMethods |-> {"GET"}]
    /\ cached = <<>>
    /\ lastStored = NoStore
    /\ RetryInitOther
    /\ FallbackInitOther
    /\ KeyInitOther
    /\ AuthInitOther
    /\ StackInitOther
    /\ MemoryInitOther
    /\ LeafInitOther

SpecMemoryCache == MemoryCacheInit /\ [][MemoryCacheNext]_vars

MockCacheInit ==
    /\ mockCache = [cache |-> EmptyMap, getHistory |-> <<>>,
                    setHistory |-> <<>>, removeHistory |-> <<>>,
                    clearHistory |-> 0]
    /\ called = [op |-> "none", key |-> "", value |-> "-",
                 ttl |-> Undefined(0), result |-> "-", at |-> 0]
    /\ base = <<>>
    /\ RetryInitOther
    /\ FallbackInitOther
    /\ CacheInitOther
    /\ KeyInitOther
    /\ AuthInitOther
    /\ StackInitOther
    /\ MemoryInitOther

SpecMockCache == MockCacheInit /\ [][MockCacheNext]_vars

BaseInit ==
    /\ base = [s \in {"retry", "fallback"} |-> <<>>]
    /\ retryOptions = DEFAULT_RETRY_OPTIONS
    /\ retry = [c \in {1} |-> RetryIdle]
    /\ fallbackOptions = DEFAULT_FALLBACK_OPTIONS
    /\ fallback = [c \in {1} |-> FallbackIdle]
    /\ called = [op |-> "none", key |-> "", value |-> "-",
                 ttl |-> Undefined(0), result |-> "-", at |-> 0]
    /\ mockCache = <<>>
    /\ CacheInitOther
    /\ KeyInitOther
    /\ AuthInitOther
    /\ StackInitOther
    /\ MemoryInitOther

SpecBase == BaseInit /\ [][BaseNext]_vars

-----------------------------------------------------------------------------
(* RetryDecorator: properties                                              *)

RetryDone(r) == r.pc = "done"

\* Every invocation of the wrapped contract made by call r has failed
RetryAllFailed(r) == r.invocations >= 1 /\ Len(r.raised) = r.invocations

\* The errors the specification calls eligible for retry: a typed error whose
\* kind is in retryableErrors and which is not an HTTP_ERROR below 500
EligibleForRetry(e) ==
    /\ e.typed
    /\ e.type \in retryOptions.retryableErrors
    /\ ~(e.type = "HTTP_ERROR" /\ e.hasStatus /\ e.statusCode < 500)

HttpErrorBelow500(e) ==
    e.typed /\ e.type = "HTTP_ERROR" /\ e.hasStatus /\ e.statusCode < 500

Last(s) == s[Len(s)]

\* C1: a call whose every invocation of the wrapped contract failed with an
\* error eligible for retry has invoked the wrapped contract exactly
\* maxAttempts times (3 under the default policy) and has rejected with the
\* error of the last invocation.
C1_AlwaysFailingInvokedMaxAttempts ==
    \A c \in DOMAIN retry :
        LET r == retry[c] IN
        (/\ RetryDone(r)
         /\ RetryAllFailed(r)
         /\ \A i \in 1 .. Len(r.raised) : EligibleForRetry(r.raised[i]))
        => /\ r.invocations = retryOptions.maxAttempts
           /\ retryOptions = DEFAULT_RETRY_OPTIONS => r.invocations = 3
           /\ r.outcome = Thrown(Last(r.raised))

C1_Witness ==
    \E c \in DOMAIN retry :
        /\ retryOptions = DEFAULT_RETRY_OPTIONS
        /\ RetryDone(retry[c])
        /\ retry[c].raised = <<NetworkError_networkFailure,
                               NetworkError_networkFailure,
                               NetworkError_networkFailure>>
        /\ retry[c].outcome = Thrown(NetworkError_networkFailure)

\* C2: a call whose first invocation fails with an HTTP_ERROR whose status
\* code is below 500 ends there: one invocation, no wait, that error thrown;
\* and with HTTP_ERROR in retryableErrors a call that ends on an HTTP_ERROR
\* of status 500 or above has made maxAttempts invocations.
C2_HttpBelow500NeverRetried ==
    \A c \in DOMAIN retry :
        LET r == retry[c] IN
        /\ (Len(r.raised) >= 1 /\ HttpErrorBelow500(r.raised[1]))
           => /\ RetryDone(r)
              /\ r.invocations = 1
              /\ r.waits = <<>>
              /\ r.outcome = Thrown(r.raised[1])
        /\ (/\ RetryDone(r)
            /\ RetryAllFailed(r)
            /\ "HTTP_ERROR" \in retryOptions.retryableErrors
            /\ \A i \in 1 .. Len(r.raised) :
                  /\ r.raised[i].type = "HTTP_ERROR"
                  /\ r.raised[i].hasStatus
                  /\ r.raised[i].statusCode >= 500)
           => r.invocations = retryOptions.maxAttempts

\* C3: when an invocation fails with an error that is not a NetworkError, or
\* whose kind is not in retryableErrors, the call ends in that step with that
\* very error, whatever the attempt: no wait is added and no invocation
\* follows (a call that has ended does nothing more).
C3_IneligiblePropagatedAtOnce ==
    [][\A c \in DOMAIN retry :
          LET r == retry[c]
              q == retry'[c] IN
          /\ (/\ Len(q.raised) = Len(r.raised) + 1
              /\ \/ ~Last(q.raised).typed
                 \/ Last(q.raised).type \notin retryOptions.retryableErrors)
             => /\ RetryDone(q)
                /\ q.outcome = Thrown(Last(q.raised))
                /\ q.waits = r.waits
                /\ q.invocations = r.invocations
          /\ RetryDone(r) => q = r]_vars

C3_Witness ==
    \E c \in DOMAIN retry :
        LET r == retry[c] IN
        /\ RetryDone(r)
        /\ r.invocations = 2
        /\ Len(r.raised) = 2
        /\ r.raised[2].type \notin retryOptions.retryableErrors
        /\ r.outcome = Thrown(r.raised[2])
        /\ Len(r.waits) = 1

\* C4: when an invocation of the wrapped contract succeeds the call ends in
\* that step and returns that value; it has then made one wait for each
\* earlier (failed) invocation and none after, so none at all when the first
\* invocation succeeds; a call that has ended invokes and waits no more.
C4_FirstSuccessTerminal ==
    [][\A c \in DOMAIN retry :
          LET r == retry[c]
              q == retry'[c] IN
          /\ q.resolved # "-"
             => /\ RetryDone(q)
                /\ q.outcome = Returned(q.resolved)
                /\ Len(q.raised) = q.invocations - 1
                /\ Len(q.waits) = q.invocations - 1
                /\ q.invocations = 1 => q.waits = <<>>
          /\ RetryDone(r) => q = r]_vars

C4_Witness ==
    \E c \in DOMAIN retry :
        LET r == retry[c] IN
        /\ RetryDone(r)
        /\ r.outcome = Returned("r1")
        /\ r.invocations = 2
        /\ Len(r.waits) = 1

\* C5: every wait made between two attempts is at most maxDelay, whatever the
\* options the decorator was constructed with.
C5_EveryWaitAtMostMaxDelay ==
    \A c \in DOMAIN retry :
        \A i \in 1 .. Len(retry[c].waits) :
            retry[c].waits[i] <= retryOptions.maxDelay

-----------------------------------------------------------------------------
(* FallbackDecorator: properties                                           *)

\* C6: a call that has started has invoked the primary exactly once, and the
\* secondary at most once, however the primary and the secondary end.
C6_PrimaryOnceSecondaryAtMostOnce ==
    \A c \in DOMAIN fallback :
        LET f == fallback[c] IN
        /\ f.pc = "idle" => Len(f.primaryCalls) = 0 /\ Len(f.fallbackCalls) = 0
        /\ f.pc # "idle" => Len(f.primaryCalls) = 1 /\ Len(f.fallbackCalls) <= 1

C6_Witness ==
    \E c \in DOMAIN fallback :
        LET f == fallback[c] IN
        /\ f.pc = "done"
        /\ Len(f.primaryCalls) = 1
        /\ Len(f.fallbackCalls) = 1
        /\ f.primaryOutcome = Thrown(NetworkError_networkFailure)
        /\ f.fallbackOutcome = Thrown(NetworkError_timeout)

\* C7: once the primary has ended, the secondary has been invoked if and only
\* if the primary failed with a typed error whose kind is in fallbackErrors
\* and which is not an HTTP_ERROR with status below 500; when it has not been
\* invoked the call has ended with the primary's own outcome.
C7_SecondaryIffEligible ==
    \A c \in DOMAIN fallback :
        LET f == fallback[c]
            e == f.primaryOutcome.error IN
        f.pc \in {"awaitFallback", "done"}
        => /\ Len(f.fallbackCalls) = 1
              <=> /\ ~f.primaryOutcome.ok
                  /\ e.typed
                  /\ e.type \in fallbackOptions.fallbackErrors
                  /\ ~HttpErrorBelow500(e)
           /\ Len(f.fallbackCalls) = 0
              => f.pc = "done" /\ f.outcome = f.primaryOutcome

\* C8: the secondary is called with the arguments the primary was called
\* with, and a call that has invoked the secondary ends with the secondary's
\* outcome, value or error.
C8_SecondarySameRequestAndOutcome ==
    \A c \in DOMAIN fallback :
        LET f == fallback[c] IN
        Len(f.fallbackCalls) >= 1
        => /\ Len(f.fallbackCalls) = 1
           /\ f.fallbackCalls[1] = f.primaryCalls[1]
           /\ f.pc = "done"
              => /\ f.fallbackOutcome # Pending
                 /\ f.outcome = f.fallbackOutcome

C8_Witness ==
    \E c \in DOMAIN fallback :
        LET f == fallback[c] IN
        /\ f.pc = "done"
        /\ f.primaryOutcome = Thrown(NetworkError_httpError(503))
        /\ Len(f.fallbackCalls) = 1
        /\ f.fallbackCalls[1].headers = Defined({<<"X-Custom-Header", "v">>})
        /\ f.fallbackCalls[1].body = Defined(<< <<"a", "1">> >>)
        /\ f.fallbackCalls[1].responseType = Defined("TestResponse")
        /\ f.outcome = Thrown(NetworkError_unauthorized)

-----------------------------------------------------------------------------
(* CacheDecorator: properties                                              *)

\* The key of the request call q was made with
KeyOf(q) == generateCacheKey(q.args.endpoint, q.args.method, q.args.body)

\* C9: a request that misses and whose wrapped call succeeds has invoked the
\* wrapped contract once and leaves its value in the cache under
\* generateCacheKey(endpoint, method, body); a request for the same key made
\* right after it ends at once with that same value, without invoking the
\* wrapped contract.
C9_SecondRequestServedFromCache ==
    [][\A c \in DOMAIN cached :
          LET r == cached[c]
              q == cached'[c] IN
          /\ (r.pc = "awaitWrapped" /\ q.pc = "done" /\ q.wrappedOutcome.ok)
             => /\ Len(q.wrappedCalls) = 1
                /\ KeyOf(q) \in DOMAIN cache'
                /\ cache'[KeyOf(q)].value = q.wrappedOutcome.value
                /\ q.outcome = q.wrappedOutcome
          /\ (/\ lastStored.valid
              /\ r.pc = "idle" /\ q.pc # "idle"
              /\ KeyOf(q) = lastStored.key)
             => /\ q.pc = "done"
                /\ q.wrappedCalls = <<>>
                /\ q.outcome = Returned(lastStored.value)]_vars

\* C10: every step of a request whose method is not in cacheMethods leaves
\* the cache as it was and makes no call on the Cache; when the request has
\* ended it has invoked the wrapped contract exactly once, with its own
\* arguments, and has ended the way the wrapped call ended.
C10_UncachedMethodBypassesCache ==
    [][\A c \in DOMAIN cached :
          LET r == cached[c]
              q == cached'[c] IN
          (q # r /\ q.args.method \notin cacheConfig.cacheMethods)
          => /\ cache' = cache
             /\ q.ops = <<>>
             /\ Len(q.wrappedCalls) = 1
             /\ q.wrappedCalls[1] = q.args
             /\ q.pc = "done"
                => /\ q.wrappedOutcome # Pending
                   /\ q.outcome = q.wrappedOutcome]_vars

C10_Witness ==
    \E c \in DOMAIN cached :
        LET q == cached[c] IN
        /\ cacheConfig.cacheMethods = {"GET"}
        /\ q.pc = "done"
        /\ q.args.method = "POST"
        /\ q.outcome = Thrown(NetworkError_networkFailure)
        /\ generateCacheKey("/a", "GET", Undefined(<<>>)) \in DOMAIN cache
        /\ ~Expired(cache[generateCacheKey("/a", "GET", Undefined(<<>>))], now)
        /\ now > 0

\* The calls request c made on the Cache include a set
HasSet(q) == \E i \in 1..Len(q.ops) : q.ops[i][1] = "set"

\* C11: when the wrapped call of a request that missed fails, the request
\* ends with that very error, the step makes no set and leaves the cache as
\* it was; a request for the same key made after such a failed request invokes
\* the wrapped contract again.
C11_FailedMissStoresNothing ==
    [][\A c \in DOMAIN cached :
          LET r == cached[c]
              q == cached'[c] IN
          /\ (r.pc = "awaitWrapped" /\ q.pc = "done" /\ ~q.wrappedOutcome.ok)
             => /\ q.outcome = q.wrappedOutcome
                /\ q.outcome.error \in CacheErrors
                /\ ~HasSet(q)
                /\ cache' = cache
          /\ (/\ r.pc = "idle" /\ q.pc # "idle"
              /\ \E d \in DOMAIN cached \ {c} :
                    /\ cached[d].pc = "done"
                    /\ cached[d].ops # <<>>
                    /\ ~cached[d].outcome.ok
                    /\ KeyOf(cached[d]) = KeyOf(q))
             => /\ q.pc = "awaitWrapped"
                /\ Len(q.wrappedCalls) = 1
                /\ q.wrappedCalls[1] = q.args]_vars

C11_Witness ==
    /\ cached[1].pc = "done"
    /\ cached[1].ops = <<<<"get", "GET:/a:">>>>
    /\ cached[1].outcome = Thrown(ForeignError)
    /\ cached[2].pc = "awaitWrapped"
    /\ KeyOf(cached[2]) = "GET:/a:"
    /\ Len(cached[2].wrappedCalls) = 1
    /\ cache = EmptyMap

\* C12: with a non-null TTL t, a request for the key of an entry stored at
\* time s is served from the cache, without invoking the wrapped contract,
\* at any time up to s + t, and invokes the wrapped contract at any later
\* time, whatever t is (the stored value being other than null).
C12_TtlHitUntilExpiryThenMiss ==
    [][\A c \in DOMAIN cached : \A d \in DOMAIN cached \ {c} :
          LET r == cached[c]
              q == cached'[c]
              e == cached[d] IN
          (/\ cacheConfig.ttl.defined
           /\ r.pc = "idle" /\ q.pc # "idle"
           /\ e.pc = "done" /\ e.storedAt.defined
           /\ e.outcome.value # "null"
           /\ KeyOf(q) = KeyOf(e))
          => /\ (now <= e.storedAt.val + cacheConfig.ttl.val
                 /\ KeyOf(q) \in DOMAIN cache)
                => /\ q.pc = "done"
                   /\ q.wrappedCalls = <<>>
                   /\ q.outcome = e.outcome
             /\ now > e.storedAt.val + cacheConfig.ttl.val
                => /\ q.pc = "awaitWrapped"
                   /\ Len(q.wrappedCalls) = 1]_vars

\* C13: invalidateCache(endpoint, method, body) leaves no entry under the key
\* of that request and leaves every other entry as it was, clearCache()
\* leaves no entry at all, and a step that moves no request changes no
\* request (so neither of the two invokes the wrapped contract); a request
\* whose key has no entry invokes the wrapped contract once.
C13_InvalidateOneClearAll ==
    [][/\ (now' = now /\ \A c \in DOMAIN cached : cached'[c].pc = cached[c].pc)
          => /\ cached' = cached
             /\ \A a \in CacheInvalidateArgs :
                  CacheInvalidateCache(a.endpoint, a.method, a.body)
                  => LET k == generateCacheKey(a.endpoint, a.method, a.body)
                     IN /\ DOMAIN cache' = DOMAIN cache \ {k}
                        /\ \A k2 \in DOMAIN cache' :
                              /\ cache'[k2] = cache[k2]
                              /\ MemoryCache_get(cache', now', k2)
                                    = MemoryCache_get(cache, now, k2)
             /\ CacheClearCache => DOMAIN cache' = {}
       /\ \A c \in DOMAIN cached :
            LET r == cached[c]
                q == cached'[c] IN
            (/\ r.pc = "idle" /\ q.pc # "idle"
             /\ Cacheable(q.args.method)
             /\ KeyOf(q) \notin DOMAIN cache)
            => /\ q.pc = "awaitWrapped"
               /\ Len(q.wrappedCalls) = 1
               /\ q.wrappedCalls[1] = q.args]_vars

\* Two requests have stored under two keys, the first key has been
\* invalidated and the entry of the second is still there
C13_Witness ==
    /\ cached[1].pc = "done" /\ HasSet(cached[1])
    /\ cached[2].pc = "done" /\ HasSet(cached[2])
    /\ KeyOf(cached[1]) = "GET:/a:"
    /\ KeyOf(cached[2]) = "GET:/a:{\"a\":1}"
    /\ DOMAIN cache = {"GET:/a:{\"a\":1}"}
    /\ cache["GET:/a:{\"a\":1}"].value = cached[2].outcome.value

-----------------------------------------------------------------------------
(* generateCacheKey: properties                                            *)

\* The fields of a body, whatever the order they were inserted in
FieldsOf(body) == {body.val[i] : i \in 1..Len(body.val)}

\* Two bodies are both absent, or both present with the same fields
StructurallyEqual(b1, b2) ==
    /\ b1.defined = b2.defined
    /\ FieldsOf(b1) = FieldsOf(b2)

\* Calls c and d have returned and had the same endpoint and method
SameEndpointAndMethod(c, d) ==
    /\ keyed[c].key.defined /\ keyed[d].key.defined
    /\ keyed[c].endpoint = keyed[d].endpoint
    /\ keyed[c].method = keyed[d].method

\* C14 as stated: with the same endpoint and method, two bodies that differ
\* (one absent and one present, or two objects that are not structurally
\* equal) get different keys.
C14_DifferentBodiesDifferentKeys ==
    \A c, d \in DOMAIN keyed :
        (/\ SameEndpointAndMethod(c, d)
         /\ ~StructurallyEqual(keyed[c].body, keyed[d].body))
        => keyed[c].key.val # keyed[d].key.val

\* C14 amended: with the same endpoint and method, an absent body and a
\* present one get different keys, and so do two bodies whose JSON
\* serializations differ.
C14_DifferentSerializationsDifferentKeys ==
    \A c, d \in DOMAIN keyed :
        LET b1 == keyed[c].body
            b2 == keyed[d].body IN
        (/\ SameEndpointAndMethod(c, d)
         /\ \/ b1.defined # b2.defined
            \/ /\ b1.defined /\ b2.defined
               /\ JSON_stringify(b1.val) # JSON_stringify(b2.val))
        => keyed[c].key.val # keyed[d].key.val

C14_Witness ==
    /\ keyed[1].method = "GET" /\ keyed[2].method = "GET"
    /\ keyed[1].body = Undefined(<<>>)
    /\ keyed[2].body = Defined(<<>>)
    /\ keyed[1].key = Defined("GET:/a:")
    /\ keyed[2].key = Defined("GET:/a:{}")

\* C15: with the same endpoint and method, structurally equal bodies get the
\* same key, whatever the order their fields were inserted in.
C15_FieldOrderDoesNotChangeKey ==
    \A c, d \in DOMAIN keyed :
        (/\ SameEndpointAndMethod(c, d)
         /\ StructurallyEqual(keyed[c].body, keyed[d].body))
        => keyed[c].key.val = keyed[d].key.val

-----------------------------------------------------------------------------
(* AuthenticatedDecorator: properties                                      *)

\* C16: a request to an endpoint needsAuth is false of never invokes the
\* token provider and invokes the wrapped contract exactly once, with the
\* endpoint, method, body, response type and headers of the caller (no
\* headers being the empty mapping); it ends the way the wrapped call ends.
C16_NoAuthPassesThrough ==
    \A c \in DOMAIN auth :
        LET q == auth[c] IN
        (q.pc # "idle" /\ q.args.endpoint \notin authConfig.needsAuth)
        => /\ q.needsAuthCalls = <<q.args.endpoint>>
           /\ q.tokens = <<>>
           /\ Len(q.wrappedCalls) = 1
           /\ q.wrappedCalls[1] = q.args
           /\ q.pc = "done" => (q.wrappedOutcome # Pending
                                /\ q.outcome = q.wrappedOutcome)

C16_Witness ==
    \E c \in DOMAIN auth :
        LET q == auth[c] IN
        /\ authConfig.needsAuth = {"/a"}
        /\ q.pc = "done"
        /\ q.args.endpoint = "/b"
        /\ q.args.headers = Defined("Authorization" :> <<"o", "l", "d">>)
        /\ q.wrappedCalls[1].headers = q.args.headers
        /\ q.outcome = Returned("r1")

\* C17: a request to an endpoint needsAuth is true of, for which the token
\* provider returns null, undefined or the empty string, fails with the
\* UNAUTHORIZED error of status 401 and does not invoke the wrapped contract.
C17_MissingTokenUnauthorized ==
    \A c \in DOMAIN auth :
        LET q == auth[c] IN
        (/\ q.pc # "idle"
         /\ q.args.endpoint \in authConfig.needsAuth)
        => /\ Len(q.tokens) = 1
           /\ q.tokens[1] \in {NullToken, UndefinedToken, StringToken(<<>>)}
              => /\ q.pc = "done"
                 /\ q.outcome.error.typed
                 /\ q.outcome.error.type = "UNAUTHORIZED"
                 /\ q.outcome.error.hasStatus
                 /\ q.outcome.error.statusCode = 401
                 /\ ~q.outcome.ok
                 /\ q.wrappedCalls = <<>>
                 /\ q.wrappedOutcome = Pending

C17_Witness ==
    \E c \in DOMAIN auth :
        LET q == auth[c] IN
        /\ q.args.endpoint \in authConfig.needsAuth
        /\ q.tokens = <<StringToken(<<>>)>>
        /\ q.pc = "done"
        /\ q.wrappedCalls = <<>>

\* The header the AuthenticatedDecorator was told to set, as call q sent it
SentAuthValue(q) == q.wrappedCalls[1].headers.val[authConfig.headerName]

\* Call q needed authentication and went on to the wrapped contract
Authenticated(q) ==
    /\ q.pc # "idle"
    /\ q.args.endpoint \in authConfig.needsAuth
    /\ Len(q.wrappedCalls) = 1

\* C18: the header value sent is "Bearer " followed by the token when the
\* token does not begin with "Bearer ", and the token itself when it does;
\* making a header value out of the value sent gives that value again.
C18_BearerPrefixedOnce ==
    \A c \in DOMAIN auth :
        LET q == auth[c] IN
        Authenticated(q)
        => LET text == q.tokens[1].text
               sent == SentAuthValue(q) IN
           /\ Len(text) >= 7 /\ SubSeq(text, 1, 7) = BearerPrefix
              => sent = text
           /\ ~(Len(text) >= 7 /\ SubSeq(text, 1, 7) = BearerPrefix)
              => /\ Len(sent) = Len(text) + 7
                 /\ SubSeq(sent, 1, 7) = BearerPrefix
                 /\ SubSeq(sent, 8, Len(sent)) = text
           /\ AuthHeaderValue(sent) = sent

C18_Witness ==
    \E c \in DOMAIN auth :
        LET q == auth[c] IN
        /\ Authenticated(q)
        /\ q.tokens[1] = StringToken(BearerPrefix \o <<"a", "b", "c">>)
        /\ SentAuthValue(q) = BearerPrefix \o <<"a", "b", "c">>

\* C19: a request that needs authentication and gets a token invokes the
\* wrapped contract with the headers of the caller plus the configured
\* header name set to the computed value: every other header of the caller
\* is kept, a value of the caller under the configured name is replaced, and
\* endpoint, method, body and response type are those of the caller.
C19_HeadersMergedAuthWins ==
    \A c \in DOMAIN auth :
        LET q == auth[c] IN
        Authenticated(q)
        => LET given == q.args.headers.val
               sent == q.wrappedCalls[1].headers.val
               name == authConfig.headerName IN
           /\ DOMAIN sent = DOMAIN given \cup {name}
           /\ sent[name] = AuthHeaderValue(q.tokens[1].text)
           /\ \A n \in DOMAIN given \ {name} : sent[n] = given[n]
           /\ [q.wrappedCalls[1] EXCEPT !.headers = q.args.headers] = q.args

C19_Witness ==
    \E c \in DOMAIN auth :
        LET q == auth[c] IN
        /\ Authenticated(q)
        /\ authConfig.headerName = "Authorization"
        /\ q.args.headers = Defined("X-Custom-Header" :> <<"v">>
                                     @@ "Authorization" :> <<"o", "l", "d">>)
        /\ q.tokens[1] = StringToken(<<"a", "b", "c">>)
        /\ q.wrappedCalls[1].headers.val =
              ("X-Custom-Header" :> <<"v">>
               @@ "Authorization" :> BearerPrefix \o <<"a", "b", "c">>)

-----------------------------------------------------------------------------
(* The stack of decorators: properties                                     *)

\* Call q is a GET that got its value from the secondary, after the primary
\* had failed with an error the FallbackDecorator falls back on
ServedBySecondary(q) ==
    /\ q.pc = "done"
    /\ q.args.method = "GET"
    /\ q.outcome.ok
    /\ q.from = "secondary"
    /\ q.primaryCalls >= 1

\* Call q is the same request as call p, made after it, and was not refused
\* for want of a token
SameRequestAfter(p, q) ==
    /\ q.order = p.order + 1
    /\ q.args.endpoint = p.args.endpoint
    /\ q.args.method = p.args.method
    /\ q.args.body = p.args.body
    /\ q.tokens \in {<<>>, <<StringToken(<<"a", "b", "c">>)>>}

\* C20: when a GET has got its value from the secondary after the primary
\* failed, that value is stored under the key of the request, and the same
\* GET made next is served from the cache with that value, without any
\* invocation of primary or secondary.
C20_SecondCallServedFromCache ==
    \A c, d \in DOMAIN stack :
        LET p == stack[c]
            q == stack[d] IN
        ServedBySecondary(p)
        => /\ p.ops = << <<"get", p.cacheKey>>, <<"set", p.cacheKey>> >>
           /\ p.cacheKey \in DOMAIN cache
           /\ cache[p.cacheKey].value = p.outcome.value
           /\ SameRequestAfter(p, q)
              => /\ q.pc = "done"
                 /\ q.from = "cache"
                 /\ q.outcome = p.outcome
                 /\ q.primaryCalls = 0
                 /\ q.secondaryCalls = 0

-----------------------------------------------------------------------------
(* Concurrency, composition and construction: properties                   *)

\* Call d of the CacheDecorator is in flight or has ended, for the key of q
SameKeyCall(d, q) ==
    /\ cached[d].pc \in {"awaitWrapped", "done"}
    /\ cached[d].ops # <<>>
    /\ KeyOf(cached[d]) = KeyOf(q)

\* C21: a request issued for a key while the wrapped call of another request
\* for that key has not completed misses and invokes the wrapped contract
\* itself, once (no coalescing); each of the two whose wrapped call succeeds
\* makes its own set, and the step in which the later one completes leaves
\* its value under the key, whatever the earlier one stored.
C21_ConcurrentMissesBothWriteLastWins ==
    [][\A c \in DOMAIN cached : \A d \in DOMAIN cached \ {c} :
          LET r == cached[c]
              q == cached'[c] IN
          /\ (/\ r.pc = "idle" /\ q.pc # "idle"
              /\ Cacheable(q.args.method)
              /\ cached[d].pc = "awaitWrapped"
              /\ SameKeyCall(d, q))
             => /\ q.pc = "awaitWrapped"
                /\ q.ops = << <<"get", KeyOf(q)>> >>
                /\ q.wrappedCalls = <<q.args>>
                /\ Len(cached'[d].wrappedCalls) = 1
          /\ (/\ r.pc = "awaitWrapped" /\ q.pc = "done"
              /\ q.wrappedOutcome.ok
              /\ SameKeyCall(d, q))
             => /\ q.ops = << <<"get", KeyOf(q)>>, <<"set", KeyOf(q)>> >>
                /\ KeyOf(q) \in DOMAIN cache'
                /\ cache'[KeyOf(q)].value = q.outcome.value]_vars

\* Request 2 missed while request 1 was in flight: request 1 has stored r1
\* since, request 2 has stored r2 after it, and r2 is the entry left
C21_Witness ==
    /\ cached[1].pc = "done" /\ cached[2].pc = "done"
    /\ KeyOf(cached[1]) = "GET:/a:" /\ KeyOf(cached[2]) = "GET:/a:"
    /\ cached[1].outcome = Returned("r1")
    /\ cached[2].outcome = Returned("r2")
    /\ HasSet(cached[1]) /\ HasSet(cached[2])
    /\ Len(cached[1].wrappedCalls) = 1 /\ Len(cached[2].wrappedCalls) = 1
    /\ lastStored = [valid |-> TRUE, key |-> "GET:/a:", value |-> "r2"]
    /\ cache["GET:/a:"].value = "r2"
    /\ cached[2].raced

\* C22: while a call of RetryDecorator.request() is suspended in
\* await delay(waitTime), every other request can take its next step: a call
\* not made yet can be made and invokes its wrapped contract, a pending
\* wrapped call can resolve or reject, through the same RetryDecorator and
\* through the FallbackDecorator; and none of these steps ends the wait or
\* changes the waiting call.
C22_WaitDoesNotBlockOthers ==
    /\ [](\A c \in DOMAIN retry :
             retry[c].pc = "awaitDelay"
             => /\ \A d \in DOMAIN retry \ {c} :
                     /\ retry[d].pc = "idle" => ENABLED RetryRequest(d)
                     /\ retry[d].pc = "awaitWrapped"
                        => /\ \A v \in ConcurrentValues :
                                ENABLED RetryWrappedResolves(d, v)
                           /\ \A e \in ConcurrentErrors :
                                ENABLED RetryWrappedRejects(d, e)
                /\ \A f \in DOMAIN fallback :
                     /\ fallback[f].pc = "idle"
                        => \A args \in ConcurrentRequestArgs :
                              ENABLED FallbackRequest(f, args)
                     /\ fallback[f].pc = "awaitPrimary"
                        => \A v \in ConcurrentValues :
                              ENABLED FallbackPrimaryResolves(f, v))
    /\ [][\A c \in DOMAIN retry :
             (retry[c].pc = "awaitDelay"
              /\ (\E d \in DOMAIN retry \ {c} : retry'[d] # retry[d]
                  \/ fallback' # fallback))
             => retry'[c] = retry[c]]_vars

\* Call 1 is in its first wait; call 2 was made during that wait, invoked
\* its wrapped contract and has returned; so has the request through the
\* FallbackDecorator
C22_Witness ==
    /\ retry[1].pc = "awaitDelay" /\ Len(retry[1].waits) = 1
    /\ retry[2].pc = "done"
    /\ retry[2].duringWaits = {<<1, 1>>}
    /\ retry[2].invocations = 1
    /\ retry[2].outcome = Returned("r1")
    /\ fallback[1].pc = "done"
    /\ fallback[1].duringWaits = {<<1, 1>>}
    /\ fallback[1].outcome = Returned("r1")

C24_PolicySatisfiesConstraints ==
    /\ retryOptions.maxAttempts >= 1
    /\ retryOptions.initialDelay >= 0
    /\ retryOptions.backoffFactor >= 1
    /\ retryOptions.maxDelay >= retryOptions.initialDelay

\* C25: a call that has made n >= 1 invocations has made n - 1 waits while
\* the n-th invocation is pending and when it has ended, and n waits while
\* it waits for the next one; the first wait is initialDelay, each later one
\* is min(previous wait * backoffFactor, maxDelay), and with
\* backoffFactor >= 1 no wait is shorter than the one before.
C25_BackoffSequence ==
    \A c \in DOMAIN retry :
        LET r == retry[c]
            n == r.invocations IN
        n >= 1
        => /\ r.pc \in {"awaitWrapped", "done"} => Len(r.waits) = n - 1
           /\ r.pc = "awaitDelay" => Len(r.waits) = n
           /\ r.waits # <<>> => r.waits[1] = retryOptions.initialDelay
           /\ \A i \in 1 .. Len(r.waits) - 1 :
                 r.waits[i + 1] = Min(r.waits[i] * retryOptions.backoffFactor,
                                      retryOptions.maxDelay)
           /\ retryOptions.backoffFactor >= 1
              => \A i \in 1 .. Len(r.waits) - 1 : r.waits[i] <= r.waits[i + 1]

\* C26: a call that has ended in failure has rejected with the error raised
\* by its last invocation of the wrapped contract.
C26_RejectsWithLastError ==
    \A c \in DOMAIN retry :
        LET r == retry[c] IN
        (RetryDone(r) /\ ~r.outcome.ok)
        => /\ r.invocations >= 1
           /\ Len(r.raised) = r.invocations
           /\ r.outcome = Thrown(Last(r.raised))

\* C27: in fallback(retry(primary), secondary) with the default policies,
\* when every invocation of the primary has failed with an error eligible
\* for retry, the secondary is invoked only when the primary has been
\* invoked maxAttempts (3) times, it is invoked once, no invocation of the
\* primary follows it, and the call ends the way the secondary ends: with
\* its value when it resolves.
C27_RetryBeforeFallback ==
    [][\A c \in DOMAIN fallback :
          LET f == fallback'[c]
              r == retry'[c] IN
          (/\ retryOptions = DEFAULT_RETRY_OPTIONS
           /\ fallbackOptions = DEFAULT_FALLBACK_OPTIONS
           /\ RetryAllFailed(r)
           /\ \A i \in 1 .. Len(r.raised) : EligibleForRetry(r.raised[i]))
          => /\ f.pc = "awaitPrimary" => r.invocations <= 3 /\ ~RetryDone(r)
             /\ f.pc \in {"awaitFallback", "done"}
                => /\ r.invocations = 3
                   /\ RetryDone(r)
                   /\ Len(f.fallbackCalls) = 1
                   /\ f.fallbackCalls[1] = f.args
             /\ fallback[c].pc \in {"awaitFallback", "done"}
                => r = retry[c]
             /\ f.pc = "done"
                => /\ f.outcome = f.fallbackOutcome
                   /\ f.fallbackOutcome # Pending
                   /\ f.fallbackOutcome.ok
                      => f.outcome = Returned(f.fallbackOutcome.value)]_vars

C27_Witness ==
    /\ retryOptions = DEFAULT_RETRY_OPTIONS
    /\ fallbackOptions = DEFAULT_FALLBACK_OPTIONS
    /\ retry[1].raised = <<NetworkError_networkFailure,
                           NetworkError_networkFailure,
                           NetworkError_networkFailure>>
    /\ retry[1].invocations = 3
    /\ retry[1].waits = <<300, 600>>
    /\ Len(fallback[1].fallbackCalls) = 1
    /\ fallback[1].pc = "done"
    /\ fallback[1].outcome = Returned("r2")

\* The number of calls of operation op among the calls q made on the Cache
CountOps(q, op) == Cardinality({i \in 1 .. Len(q.ops) : q.ops[i][1] = op})

\* C28: a request for a cacheable method that has been made has done one get
\* on the Cache, under its key, on a hit as on a miss, and at most one set;
\* it has done a set just when it missed and its wrapped call succeeded; the
\* wrapped contract is invoked only by a request that has done its get, and
\* not at all on a hit.
C28_OneGetAtMostOneSet ==
    \A c \in DOMAIN cached :
        LET q == cached[c] IN
        (q.pc # "idle" /\ Cacheable(q.args.method))
        => /\ CountOps(q, "get") = 1
           /\ q.ops[1] = <<"get", KeyOf(q)>>
           /\ CountOps(q, "set") <= 1
           /\ Len(q.ops) = CountOps(q, "get") + CountOps(q, "set")
           /\ HasSet(q) <=> (q.pc = "done" /\ q.wrappedOutcome.ok)
           /\ HasSet(q) => /\ q.ops[2] = <<"set", KeyOf(q)>>
                           /\ Len(q.wrappedCalls) = 1
           /\ Len(q.wrappedCalls) <= 1
           /\ (q.pc = "done" /\ q.wrappedOutcome = Pending)
              => /\ q.wrappedCalls = <<>>
                 /\ q.outcome.ok
           /\ q.pc = "awaitWrapped" => Len(q.wrappedCalls) = 1

\* Request 1 missed and stored, request 2 hit: one get each, one set in all
C28_Witness ==
    /\ cached[1].pc = "done" /\ cached[2].pc = "done"
    /\ cached[1].ops = << <<"get", "GET:/a:">>, <<"set", "GET:/a:">> >>
    /\ cached[2].ops = << <<"get", "GET:/a:">> >>
    /\ cached[2].wrappedCalls = <<>>
    /\ cached[2].outcome = cached[1].outcome

\* C29: time passing removes no entry; a step of a request removes an entry
\* only when it is the get of that request, the entry is under its key and is
\* past its expiry, and that get returns null (the request goes on as a
\* miss); a get that returns a value leaves the map as it was and the entry
\* it read does not expire before the current time; any other removal is
\* that of one key (remove) or of all (clear).
C29_LazyExpiry ==
    [][/\ now' # now => cache' = cache
       /\ \A c \in DOMAIN cached :
            LET r == cached[c]
                q == cached'[c] IN
            /\ q # r
               => \A k \in DOMAIN cache \ DOMAIN cache' :
                     /\ r.pc = "idle"
                     /\ k = q.cacheKey
                     /\ Expired(cache[k], now)
                     /\ q.ops = << <<"get", k>> >>
                     /\ q.pc = "awaitWrapped"
            /\ (r.pc = "idle" /\ q.pc # "idle" /\ Cacheable(q.args.method))
               => /\ (KeyOf(q) \in DOMAIN cache
                      /\ cache[KeyOf(q)].expiry.defined
                      /\ cache[KeyOf(q)].expiry.val < now)
                     => /\ KeyOf(q) \notin DOMAIN cache'
                        /\ q.pc = "awaitWrapped"
                        /\ q.outcome = Pending
                  /\ q.pc = "done"
                     => /\ cache' = cache
                        /\ KeyOf(q) \in DOMAIN cache
                        /\ q.outcome = Returned(cache[KeyOf(q)].value)
                        /\ cache[KeyOf(q)].expiry.defined
                           => cache[KeyOf(q)].expiry.val >= now
       /\ (cached' = cached /\ now' = now)
          => \/ cache' = cache
             \/ cache' = MemoryCache_clear
             \/ \E k \in DOMAIN cache : cache' = MemoryCache_remove(cache, k)]_vars

\* Request 1 stored at time 0 with a TTL of 2; at time 3 the get of request 2
\* has found the entry expired and the map is left without it
C29_Witness ==
    /\ cacheConfig.ttl = Defined(2)
    /\ now = 3
    /\ cached[1].pc = "done" /\ cached[1].storedAt = Defined(0)
    /\ cached[1].outcome = Returned("r1")
    /\ cached[2].pc = "awaitWrapped"
    /\ cached[2].ops = << <<"get", KeyOf(cached[1])>> >>
    /\ cache = EmptyMap

\* C30: nothing the caller does after the construction (assigning to a
\* field of the options object it passed or of the exported defaults,
\* pushing on an array of error kinds it passed or on one of the defaults)
\* changes the options the RetryDecorator and the FallbackDecorator work
\* with: the kinds retried, the kinds fallen back on, the attempt and delay
\* parameters.
C30_PoliciesImmutable ==
    [][/\ retryOptions' = retryOptions
       /\ fallbackOptions' = fallbackOptions]_vars


-----------------------------------------------------------------------------
(* Caches, invalidation, isolation and the transport: properties           *)

\* C31: an entry of the MemoryCache stored without expiry (set with no ttl)
\* is returned by get at every clock time, and stays as it is in every step
\* that is not a set on its key, the remove of its key or clear; a set
\* leaves under its key the value and the expiry of that set, whatever
\* entry was there, and nothing else changes; when a key leaves the map
\* through remove or through the get that finds it expired, the entries of
\* all other keys stay as they were.
C31_NoExpiryEntryStaysOthersUntouched ==
    /\ [](\A k \in DOMAIN cache :
            ~cache[k].expiry.defined
               => \A t \in 0..MaxNow :
                     MemoryCache_get(cache, t, k) = cache[k].value)
    /\ [][LET c == called' IN
          /\ \A k \in DOMAIN cache :
               (~cache[k].expiry.defined
                /\ (k \notin DOMAIN cache' \/ cache'[k] # cache[k]))
                  => \/ c.op \in {"set", "remove"} /\ c.key = k
                     \/ c.op = "clear"
          /\ called' = called => cache' = cache
          /\ (called' # called /\ c.op = "set")
               => /\ DOMAIN cache' = DOMAIN cache \cup {c.key}
                  /\ cache'[c.key].value = c.value
                  /\ cache'[c.key].expiry =
                        (IF c.ttl.defined /\ c.ttl.val > 0
                         THEN Defined(now + c.ttl.val) ELSE NullExpiry)
                  /\ \A j \in DOMAIN cache \ {c.key} : cache'[j] = cache[j]
          /\ (called' # called /\ c.op = "get")
               => /\ c.result = (IF c.key \in DOMAIN cache'
                                 THEN cache[c.key].value ELSE "null")
                  /\ DOMAIN cache' \in {DOMAIN cache, DOMAIN cache \ {c.key}}
                  /\ c.key \in DOMAIN cache \ DOMAIN cache'
                        => cache[c.key].expiry.defined
                           /\ cache[c.key].expiry.val < now
                  /\ \A j \in DOMAIN cache' : cache'[j] = cache[j]
          /\ (called' # called /\ c.op = "remove")
               => /\ DOMAIN cache' = DOMAIN cache \ {c.key}
                  /\ \A j \in DOMAIN cache' : cache'[j] = cache[j]]_vars

\* set("k1", "r1") without ttl at some time; at the last clock time
\* get("k1") has returned "r1" from the entry, which is as it was stored,
\* the only one left in the map
C31_Witness ==
    /\ now = MaxNow
    /\ called = [op |-> "get", key |-> "k1", value |-> "-",
                 ttl |-> Undefined(0), result |-> "r1", at |-> MaxNow]
    /\ cache = [k \in {"k1"} |-> [value |-> "r1", expiry |-> NullExpiry]]


\* C32: on a MockCache, a get of a key that holds a value returns that
\* value and a get of a key that holds none returns null; get appends its
\* key to the get history, set its key, value and ttl to the set history,
\* remove its key to the remove history, clear adds one to the clear
\* count, each leaving the other histories as they were; resetHistory
\* empties the histories and leaves the stored entries as they were.
C32_MockCacheRoundTripAndHistories ==
    [][LET c == called'
           m == mockCache
           n == mockCache'
           Same(fields) == \A f \in fields : n[f] = m[f]
       IN
       /\ c.op = "get"
            => /\ c.result = (IF c.key \in DOMAIN m.cache
                              THEN m.cache[c.key] ELSE "null")
               /\ n.getHistory = Append(m.getHistory, c.key)
               /\ Same({"cache", "setHistory", "removeHistory",
                        "clearHistory"})
       /\ c.op = "set"
            => /\ c.key \in DOMAIN n.cache /\ n.cache[c.key] = c.value
               /\ n.setHistory =
                     Append(m.setHistory,
                            [key |-> c.key, value |-> c.value, ttl |-> c.ttl])
               /\ Same({"getHistory", "removeHistory", "clearHistory"})
       /\ c.op = "remove"
            => /\ c.key \notin DOMAIN n.cache
               /\ n.removeHistory = Append(m.removeHistory, c.key)
               /\ Same({"getHistory", "setHistory", "clearHistory"})
       /\ c.op = "clear"
            => /\ n.cache = EmptyMap
               /\ n.clearHistory = m.clearHistory + 1
               /\ Same({"getHistory", "setHistory", "removeHistory"})
       /\ c.op = "resetHistory"
            => /\ n.cache = m.cache
               /\ n.getHistory = <<>> /\ n.setHistory = <<>>
               /\ n.removeHistory = <<>> /\ n.clearHistory = 0]_vars


\* C33: a request for a cacheable method that finds under its key an entry
\* that has not expired, whatever value a successful wrapped call has
\* stored there (null included), ends at once with that value and does not
\* invoke the wrapped contract.
C33_StoredValueIsAHit ==
    [][\A c \in DOMAIN cached :
          LET r == cached[c]
              q == cached'[c] IN
          (/\ r.pc = "idle" /\ q.pc # "idle"
           /\ Cacheable(q.args.method)
           /\ KeyOf(q) \in DOMAIN cache
           /\ ~Expired(cache[KeyOf(q)], now))
             => /\ q.pc = "done"
                /\ q.wrappedCalls = <<>>
                /\ q.outcome = Returned(cache[KeyOf(q)].value)]_vars


\* C34: a result is not stored under a key after an invalidation of that
\* key that returned while the wrapped call was pending.  With entries
\* that never expire: when request d has stored under the key, request c
\* started while the wrapped call of d was pending, and the key has no
\* entry any more (invalidateCache or clearCache has removed it since),
\* the wrapped call of c is pending from before the invalidation, and the
\* step in which it resolves stores nothing.
C34_NoStoreAfterInvalidation ==
    [][\A c \in DOMAIN cached, d \in DOMAIN cached :
          LET r == cached[c]
              q == cached'[c] IN
          (/\ c # d
           /\ ~TruthyTtl(cacheConfig.ttl)
           /\ r.pc = "awaitWrapped" /\ r.raced
           /\ cached[d].pc = "done" /\ HasSet(cached[d])
           /\ cached[d].cacheKey = r.cacheKey
           /\ r.cacheKey \notin DOMAIN cache)
             => /\ q.ops = r.ops
                /\ r.cacheKey \notin DOMAIN cache']_vars


\* C35: a request that differs from an earlier one in its headers only has
\* the key of the earlier one; when the entry the earlier one has stored is
\* still there and has not expired, it ends at once with the value of that
\* entry and the wrapped contract is not invoked with its headers.
C35_HeadersDoNotChangeTheHit ==
    [][\A c \in DOMAIN cached, d \in DOMAIN cached :
          LET r == cached[c]
              q == cached'[c]
              p == cached[d] IN
          (/\ c # d
           /\ r.pc = "idle" /\ q.pc # "idle"
           /\ Cacheable(q.args.method)
           /\ p.pc = "done" /\ HasSet(p)
           /\ q.args.endpoint = p.args.endpoint
           /\ q.args.method = p.args.method
           /\ q.args.body = p.args.body
           /\ q.args.headers # p.args.headers
           /\ p.cacheKey \in DOMAIN cache
           /\ cache[p.cacheKey].value = p.outcome.value
           /\ ~Expired(cache[p.cacheKey], now))
             => /\ q.cacheKey = p.cacheKey
                /\ q.pc = "done"
                /\ q.outcome = Returned(p.outcome.value)
                /\ q.wrappedCalls = <<>>]_vars


\* The wait before retry number i of a call (i >= 1), from the policy alone
RECURSIVE WaitOfRetry(_)
WaitOfRetry(i) ==
    IF i = 1 THEN retryOptions.initialDelay
    ELSE NextWaitTime(retryOptions, WaitOfRetry(i - 1))

\* C36: with calls of request() through one RetryDecorator interleaved in
\* any order, each call invokes the wrapped contract at most maxAttempts
\* times, its attempt counter is the number of its own waits that have
\* elapsed, its waits are the first of the policy's sequence (the first one
\* initialDelay), at most one after each of its own failures, and its
\* current delay is the one that follows its own waits.
C36_CountersBelongToTheCall ==
    \A c \in DOMAIN retry :
        LET r == retry[c] IN
        /\ r.invocations <= retryOptions.maxAttempts
        /\ r.pc # "idle"
             => /\ r.attempt = (IF r.pc = "awaitDelay" THEN Len(r.waits) - 1
                                ELSE Len(r.waits))
                /\ r.invocations \in {Len(r.raised), Len(r.raised) + 1}
                /\ Len(r.waits) \in {r.invocations - 1, r.invocations}
                /\ Len(r.waits) <= Len(r.raised)
                /\ \A i \in 1..Len(r.waits) : r.waits[i] = WaitOfRetry(i)
                /\ r.waitTime = WaitOfRetry(IF r.pc = "awaitDelay"
                                            THEN Len(r.waits)
                                            ELSE Len(r.waits) + 1)

\* Under the default policy: request 2 was called while request 1 was in
\* its second wait (600 ms, after two failures); request 2 has failed once
\* and is in its first wait, of 300 ms
C36_Witness ==
    /\ retryOptions = DEFAULT_RETRY_OPTIONS
    /\ retry[1].pc = "awaitDelay" /\ retry[1].waits = <<300, 600>>
    /\ <<1, 2>> \in retry[2].duringWaits
    /\ retry[2].pc = "awaitDelay" /\ retry[2].waits = <<300>>
    /\ Len(retry[2].raised) = 1


C38_AtLeastOneInvocation ==
    \A c \in DOMAIN retry :
        LET r == retry[c] IN
        r.pc = "done"
          => /\ r.invocations >= 1
             /\ ~r.outcome.ok
                  => \E i \in 1..Len(r.raised) : r.raised[i] = r.outcome.error


\* C39: through authenticated(cached(x)), a request for an endpoint that
\* needs authentication, made while the token provider returns no token,
\* ends at once with the UNAUTHORIZED error; it makes no get and no set on
\* the cache, the cache stays as it is and nothing below the
\* CacheDecorator is invoked, whether or not the cache holds an entry for
\* the key of the request.
C39_NoTokenNeverReachesTheCache ==
    [][\A c \in DOMAIN stack :
          LET r == stack[c]
              q == stack'[c] IN
          (/\ r.pc = "idle" /\ q.pc # "idle"
           /\ q.args.endpoint \in authConfig.needsAuth
           /\ Len(q.tokens) = 1
           /\ q.tokens[1] \in {NullToken, UndefinedToken, StringToken(<<>>)})
             => /\ q.pc = "done"
                /\ q.outcome = Thrown(NetworkError_unauthorized)
                /\ q.ops = <<>>
                /\ cache' = cache
                /\ q.retry = RetryIdle
                /\ q.primaryCalls = 0 /\ q.secondaryCalls = 0]_vars

\* An earlier request with a token has stored its response; the entry is
\* still there and has not expired; a later request for the same endpoint,
\* method and body, made without token, has ended with UNAUTHORIZED and has
\* made no call on the cache
C39_Witness ==
    \E c \in DOMAIN stack, d \in DOMAIN stack :
        LET q == stack[c]
            p == stack[d]
            key == generateCacheKey(q.args.endpoint, q.args.method,
                                    q.args.body) IN
        /\ p.pc = "done" /\ p.order < q.order
        /\ p.outcome.ok /\ p.cacheKey = key /\ p.from # "cache"
        /\ key \in DOMAIN cache
        /\ cache[key].value = p.outcome.value /\ cache[key].value # "null"
        /\ ~Expired(cache[key], now)
        /\ q.pc = "done" /\ q.args.endpoint \in authConfig.needsAuth
        /\ q.tokens = <<NullToken>>
        /\ q.outcome = Thrown(NetworkError_unauthorized)
        /\ q.ops = <<>>

=============================================================================
